---- MODULE Spec2Model ----
(***************************************************************************)
(* Oblivilight backend: the session state (core/state.py SystemState) and  *)
(* the workflows of core/agent.py as the backend technical specification   *)
(* lays them out: the real-time analysis loop, handle_signal, the forget   *)
(* workflow, the daily summary workflow and context injection.             *)
(*                                                                         *)
(* Workflows are dispatched by handle_signal and then proceed step by step *)
(* (one step per collaborator call), interleaved with further requests and *)
(* with the analysis loop.                                                 *)
(***************************************************************************)
EXTENDS Integers, Sequences, FiniteSets, TLC

(* ---- bounds of the model ---------------------------------------------- *)

\* number of audio chunks the microphone thread records in one run
MaxChunks == 2
\* largest word count of one recognised utterance
MaxWords == 2
\* number of workflow coroutines that can be in flight together
MaxTasks == 2
\* words to remove for FORGET_8S (scaled down from the document's 25/30)
ForgetShortWords == 2
\* frames the audio queue holds before the oldest is dropped
MaxQueue == 2

\* frames recorded when the overflow of the audio queue is explored
MaxFrames == 4

\* words to remove for FORGET_30S (scaled down from the document's 90/60)
ForgetLongWords == 3

\* the lamp is followed until millis() passes these
TouchHorizon == 3000

WaveHorizon == 3400

QrHorizon == 6000

GatewayHorizon == 3200

\* uuids the database tool can draw
MaxMemories == 2

\* WebSocket objects the hook is followed through
MaxSockets == 4

\* values wsUrl takes, one after the other
MaxUrls == 2

(* ---- vocabulary ------------------------------------------------------- *)

ValidSignals == {"WAKE_UP", "SLEEP_TRIGGER", "FORGET_8S", "FORGET_30S"}

ForgetSignals == {"FORGET_8S", "FORGET_30S"}

\* what a client may post to /api/device/signal: the four signal types and
\* a string that is none of them
Signals == ValidSignals \cup {"BOGUS"}

Contexts == {"memo"}

\* the emotion types a SET_EMOTION message may carry
EmotionLabels ==
    {"happy", "sad", "warm", "optimistic", "anxious", "peaceful", "depressed",
     "lonely", "angry", "neutral"}

\* what the emotion_analysis chain may answer: a label of the prompt, a
\* label that is not of the prompt, text that is no JSON object
Responses == {"happy", "surprised", "unparseable"}

NoContext == "None"

TaskIds == 1 .. MaxTasks

\* a free slot; a running workflow keeps its kind, its position, the number
\* of words it has to remove and the number it removed (forget), the history
\* its signal met, until its record is written, and the is_listening flag
\* its signal met (summary)
NoTask == [kind |-> "none", pc |-> "idle", words |-> 0, removed |-> 0,
           at_signal |-> << >>, was_listening |-> FALSE]

SummaryPcs == {"transcribe", "short", "print"}

VARIABLES
    is_listening,          \* SystemState.is_listening
    is_processing,         \* SystemState.is_processing
    injected_context,      \* SystemState.injected_context
    conversation_history,  \* SystemState.conversation_history
    audio_queue,           \* the queue audio_service fills
    recorded,              \* chunks recorded so far by the microphone thread
    live_pc,               \* analysis loop: "idle" or "transcribing"
    live_chunk,            \* the chunk the analysis loop is transcribing
    tasks,                 \* workflow coroutines in flight, by slot
    last_memory,           \* the record the latest create_memory wrote
    last_event             \* what the latest step was: a request to
                           \* /api/device/signal with its reply, the end of
                           \* a workflow, or anything else

\* the firmware of the lamp (sketch_jul18a.ino)
VARIABLES
    clock,                 \* millis() when the next loop() starts
    touch,                 \* touchLastReading, touchStableState, touchLastChange
    isAwake,
    wave,                  \* waveState, stateTime
    lastSample,
    lastWaveMillis,
    qr,                    \* qrLastReading, qrStableState, qrLastChange
    qrReady,
    qrArmed,               \* the static local of loop()
    serial_out,            \* the lines the latest loop() printed
    reading,               \* what the latest loop() read from its sensors
    seen                   \* when a far sample, a near sample that followed a
                           \* far one in time, and a FORGET_SIGNAL were last
                           \* seen, since when the touch pin has read what it
                           \* reads, and how many REWIND_SIGNAL lines went out

\* the database tool (core/tools.py) behind /api/memory/{uuid}
VARIABLES
    datastore,             \* datastore/{uuid}.json, by uuid
    store_reply            \* the latest call of the tool and what it returned

\* the projector page's hook (useProjectorSocket.js)
VARIABLES
    sockets,               \* the WebSocket objects created so far
    wsRef,                 \* wsRef.current: an index into sockets, 0 for null
    timers,                \* pending setTimeout(connect, 3000) calls, by the
                           \* wsUrl of the effect whose connect they call
    isConnected,
    wsUrl,                 \* the wsUrl of the latest render
    mounted                \* the component has not been unmounted

\* what useProjectorSocket gives the page
VARIABLES
    latestEmotionRef,      \* latestEmotionRef.current, Null for null
    emotionIndex,
    mode,
    heard                  \* the latest message or tick, and the index of the
                           \* latest SET_EMOTION with a known label that
                           \* arrived since the last tick

\* what useProjectorState gives the page (app/page.jsx)
VARIABLES
    emotion,
    state_mode,            \* mode of useProjectorState
    reset_timer,           \* the delay of the pending auto-reset timer, 0 for
                           \* none
    commanded,             \* the latest command or timer that ran
    state_connected        \* isConnected of useProjectorState

\* the two-slot VideoPlayer (components/VideoPlayer.jsx)
VARIABLES
    targetEmotion,         \* the emotion prop
    activeSlot,
    slot,                  \* by slot: videoASrc/videoBSrc, emotionInSlotA/B,
                           \* whether the element still has to report
                           \* canplaythrough, whether its video has ended
    isOnCooldown,
    cooldown_timers        \* pending setTimeout(..., COOLDOWN_MS) calls

\* the index-driven VideoPlayer (pages/VideoPlayer.jsx)
VARIABLES
    index,                 \* the index prop
    isHandWaving,          \* the isHandWaving prop
    currentIndex,
    isSecondActive,
    isTransitioning,
    showHandWavingOverlay,
    videoA,                \* the index in videos of the source of video A
    videoB,
    nextIndexFromPropRef,
    timerRef,              \* the id of a pending playback timer, or 0
    cycle_timers,          \* pending playback timers in the order they fire,
                           \* each with the state its callback closes over
    transition_timers,     \* pending ends of transitions, in the same way
    hand_timer,            \* the timer of handWavingTimerRef is pending
    told,                  \* the step called onHandWavingChange(false)
    pending_prop           \* the last valid index prop, until it is current

agent_vars ==
    << is_listening, is_processing, injected_context, conversation_history,
       audio_queue, recorded, live_pc, live_chunk, tasks, last_memory,
       last_event >>

firmware_vars ==
    << clock, touch, isAwake, wave, lastSample, lastWaveMillis, qr, qrReady,
       qrArmed, serial_out, reading, seen >>

store_vars == << datastore, store_reply >>

hook_vars == << sockets, wsRef, timers, isConnected, wsUrl, mounted >>

feed_vars == << latestEmotionRef, emotionIndex, mode, heard >>

state_vars == << emotion, state_mode, reset_timer, commanded, state_connected >>

slots_vars == << targetEmotion, activeSlot, slot, isOnCooldown, cooldown_timers >>

player_vars ==
    << index, isHandWaving, currentIndex, isSecondActive, isTransitioning,
       showHandWavingOverlay, videoA, videoB, nextIndexFromPropRef, timerRef,
       cycle_timers, transition_timers, hand_timer, told, pending_prop >>

page_vars == << feed_vars, state_vars, slots_vars, player_vars >>

\* what the agent leaves alone
world == << firmware_vars, store_vars, hook_vars, page_vars >>

vars == << agent_vars, world >>

(* ---- helpers ---------------------------------------------------------- *)

Min(a, b) == IF a <= b THEN a ELSE b

RECURSIVE WordCount(_)
WordCount(h) == IF h = << >> THEN 0 ELSE h[1].words + WordCount(Tail(h))

IsPrefix(p, h) == Len(p) <= Len(h) /\ p = SubSeq(h, 1, Len(p))

Running(t) == tasks[t].kind /= "none"

RunningKind(k) == \E t \in TaskIds : tasks[t].kind = k

FreeSlot(t) == tasks[t].kind = "none" /\ \A u \in TaskIds : u < t => Running(u)

\* a request: the signal, the status of the reply, and the is_listening
\* flag it met
Replied(sig, status) ==
    [op |-> "signal", what |-> sig, result |-> status,
     listening |-> is_listening]

\* the end of workflow t: its kind, "ok" or "failed", and the is_listening
\* flag its signal met
EndOf(t, result) ==
    [op |-> "ended", what |-> tasks[t].kind, result |-> result,
     listening |-> tasks[t].was_listening]

OtherEvent ==
    [op |-> "other", what |-> "none", result |-> "none", listening |-> FALSE]

\* no diary has been stored yet
NoMemory == [stored |-> FALSE, raw_conversation |-> << >>]

\* 200 OK {"status": "ok", ...}
OkStatus == 200

\* 400 Bad Request {"detail": "Invalid signal type."}
InvalidStatus == 400

(* ---- firmware of the lamp: constants and power-up state ----------------- *)

DISTANCE_THRESHOLD == 30

MAX_INTERVAL == 1000

SAMPLE_INTERVAL == 20

WAVE_COOLDOWN == 3000

TOUCH_DEBOUNCE == 150

QR_DEBOUNCE == 200

LIGHT_THRESHOLD == 550

QR_STARTUP_BLOCK == 5000

\* setup() waits this long before the first loop()
SetupDelay == 2000

\* newMotoSpin() waits this long between its two turns
SpinDelay == 3000

\* the delay that ends loop()
LoopDelay == 10

\* pulseIn gives up after this many milliseconds without an echo
EchoTimeout == 30

\* one loop() without a motor spin: the closing delay and the wait for the
\* echo of the ultrasonic sensor
LoopTime == LoopDelay + EchoTimeout

\* a hand in front of the sensor, the threshold itself, and the distance
\* measureDistance reports when no echo comes back
Distances == {DISTANCE_THRESHOLD - 10, DISTANCE_THRESHOLD, DISTANCE_THRESHOLD + 10}

\* analogRead of the light sensor: the card covers it or not
LightValues == {LIGHT_THRESHOLD, LIGHT_THRESHOLD + 1}

\* a line on the serial port: nothing, or the command of the gateway
Commands == {"", "PRINT_CARD"}

Never == 0 - 1

\* the statics of one debounced input
Released == [lastReading |-> FALSE, stableState |-> FALSE, lastChange |-> 0,
             changed |-> FALSE]

Quiet == [touchRaw |-> FALSE, d |-> DISTANCE_THRESHOLD + 10,
          lightValue |-> LIGHT_THRESHOLD, cmd |-> "", sampled |-> FALSE]

FirmwareInit ==
    /\ clock = SetupDelay
    /\ touch = Released
    /\ isAwake = FALSE
    /\ wave = [waveState |-> 0, stateTime |-> 0]
    /\ lastSample = 0
    /\ lastWaveMillis = 0
    /\ qr = Released
    /\ qrReady = FALSE
    /\ qrArmed = FALSE
    /\ serial_out = << >>
    /\ reading = Quiet
    /\ seen = [far_at |-> Never, near_at |-> Never, forget_at |-> Never,
               touch_since |-> 0, rewinds |-> 0]

(* ---- database tool and projector hook: start ---------------------------- *)

MemoryIds == 1 .. MaxMemories

Texts == {"first", "second"}

\* a diary as it is stored: the fields a PUT can replace and those it cannot
Summaries == [full_summary : Texts, short_summary : Texts]

Absent == [full_summary |-> "", short_summary |-> ""]

NotFoundStatus == 404

NoReply == [op |-> "none", uuid |-> 0, status |-> 0, body |-> Absent]

StoreInit ==
    /\ datastore = [id \in MemoryIds |-> Absent]
    /\ store_reply = NoReply

Urls == 1 .. MaxUrls

\* new window.WebSocket(wsUrl) with the handlers connect() hangs on it
NewSocket(url) == [readyState |-> "CONNECTING", onclose |-> TRUE, url |-> url]

\* the component has rendered and its effect has run: connect() has created
\* the first socket
HookInit ==
    /\ sockets = << NewSocket(1) >>
    /\ wsRef = 1
    /\ timers = [url \in Urls |-> 0]
    /\ isConnected = FALSE
    /\ wsUrl = 1
    /\ mounted = TRUE

Null == Never

\* useState(null), useState("IDLE"), useRef(null)
FeedInit ==
    /\ latestEmotionRef = Null
    /\ emotionIndex = Null
    /\ mode = "IDLE"
    /\ heard = [op |-> "none", arg |-> "", latest |-> Null]

\* useState("neutral"), useState("IDLE")
StateInit ==
    /\ emotion = "neutral"
    /\ state_mode = "IDLE"
    /\ reset_timer = 0
    /\ commanded = [op |-> "none", arg |-> ""]
    /\ state_connected = FALSE

\* EMOTION_VIDEOS
EmotionVideos(e) ==
    CASE e = "neutral" -> "videos/neutral.mp4"
      [] e = "happy" -> "videos/happy.mp4"
      [] e = "sad" -> "videos/sad.mp4"
      [] e = "warm" -> "videos/warm.mp4"
      [] e = "optimistic" -> "videos/optimistic.mp4"
      [] e = "anxious" -> "videos/anxious.mp4"
      [] e = "peaceful" -> "videos/peaceful.mp4"
      [] e = "depressed" -> "videos/depressed.mp4"
      [] e = "lonely" -> "videos/lonely.mp4"
      [] e = "angry" -> "videos/angry.mp4"
      [] OTHER -> ""

\* a video element: its src, the emotion noted for it, whether it is still
\* loading (canplaythrough to come) and whether its video has ended
Element(src, e, loading, ended) ==
    [src |-> src, emotion |-> e, loading |-> loading, ended |-> ended]

\* slot A loads the neutral video, slot B has no source
SlotsInit ==
    /\ targetEmotion = "neutral"
    /\ activeSlot = "A"
    /\ slot = [x \in {"A", "B"} |->
                   IF x = "A"
                   THEN Element(EmotionVideos("neutral"), "neutral", TRUE, FALSE)
                   ELSE Element("", "", FALSE, FALSE)]
    /\ isOnCooldown = FALSE
    /\ cooldown_timers = 0

\* what a callback made in a render closes over
Closure(cur, second, trans) == [cur |-> cur, second |-> second, trans |-> trans]

\* a pending playback timer
Timer(id, c) == [id |-> id, c |-> c]

\* the player after its first render and that render's effects: the effect on
\* [showHandWavingOverlay, isHandWaving] and the effect on [currentIndex]
\* have each called startPlaybackCycle, timerRef holds the second timer
PlayerInit ==
    /\ index = Null
    /\ isHandWaving = FALSE
    /\ currentIndex = 0
    /\ isSecondActive = FALSE
    /\ isTransitioning = FALSE
    /\ showHandWavingOverlay = FALSE
    /\ videoA = 0
    /\ videoB = Null
    /\ nextIndexFromPropRef = Null
    /\ cycle_timers = << Timer(1, Closure(0, FALSE, FALSE)),
                         Timer(2, Closure(0, FALSE, FALSE)) >>
    /\ timerRef = 2
    /\ transition_timers = << >>
    /\ hand_timer = FALSE
    /\ told = FALSE
    /\ pending_prop = Null

Init ==
    /\ is_listening = FALSE
    /\ is_processing = FALSE
    /\ injected_context = NoContext
    /\ conversation_history = << >>
    /\ audio_queue = << >>
    /\ recorded = 0
    /\ live_pc = "idle"
    /\ live_chunk = 0
    /\ tasks = [t \in TaskIds |-> NoTask]
    /\ last_memory = NoMemory
    /\ last_event = OtherEvent
    /\ FirmwareInit
    /\ StoreInit
    /\ HookInit
    /\ FeedInit
    /\ StateInit
    /\ SlotsInit
    /\ PlayerInit

(* ---- POST /api/device/signal -> agent.handle_signal ------------------- *)

\* variant: the signal type is not validated and the request is acknowledged
HandleInvalid_Acknowledged(sig) ==
    /\ sig \notin ValidSignals
    /\ last_event' = Replied(sig, OkStatus)
    /\ UNCHANGED world
    /\ UNCHANGED << is_listening, is_processing, injected_context,
                    conversation_history, audio_queue, recorded, live_pc,
                    live_chunk, tasks, last_memory >>

\* a signal type that is none of the four: 400 Bad Request
HandleInvalid(sig) ==
    /\ sig \notin ValidSignals
    /\ last_event' = Replied(sig, InvalidStatus)
    /\ UNCHANGED world
    /\ UNCHANGED << is_listening, is_processing, injected_context,
                    conversation_history, audio_queue, recorded, live_pc,
                    live_chunk, tasks, last_memory >>

\* variant: WAKE_UP sets is_listening and keeps the old history
HandleWakeUp_KeepsHistory ==
    /\ last_event' = Replied("WAKE_UP", OkStatus)
    /\ is_listening' = TRUE
    /\ UNCHANGED world
    /\ UNCHANGED << is_processing, injected_context, conversation_history,
                    audio_queue, recorded, live_pc, live_chunk, tasks,
                    last_memory >>

\* variant: WAKE_UP resets the injected context with the history
HandleWakeUp_ClearsContext ==
    /\ last_event' = Replied("WAKE_UP", OkStatus)
    /\ is_listening' = TRUE
    /\ conversation_history' = << >>
    /\ injected_context' = NoContext
    /\ UNCHANGED world
    /\ UNCHANGED << is_processing, audio_queue, recorded, live_pc, live_chunk,
                    tasks, last_memory >>

\* WAKE_UP: is_listening = True and the conversation history is reset
HandleWakeUp ==
    /\ last_event' = Replied("WAKE_UP", OkStatus)
    /\ is_listening' = TRUE
    /\ conversation_history' = << >>
    /\ UNCHANGED world
    /\ UNCHANGED << is_processing, injected_context, audio_queue, recorded,
                    live_pc, live_chunk, tasks, last_memory >>

ForgetWords(sig) == IF sig = "FORGET_8S" THEN ForgetShortWords ELSE ForgetLongWords

\* FORGET_8S / FORGET_30S: process_forget_memory starts, is_processing = True
HandleForget(sig) ==
    /\ sig \in ForgetSignals
    /\ \E t \in TaskIds :
        /\ FreeSlot(t)
        /\ tasks' = [tasks EXCEPT ![t] =
                        [kind |-> "forget", pc |-> "truncate",
                         words |-> ForgetWords(sig), removed |-> 0,
                         at_signal |-> << >>,
                         was_listening |-> FALSE]]
    /\ last_event' = Replied(sig, OkStatus)
    /\ is_processing' = TRUE
    /\ UNCHANGED world
    /\ UNCHANGED << is_listening, injected_context, conversation_history,
                    audio_queue, recorded, live_pc, live_chunk, last_memory >>

\* SLEEP_TRIGGER: process_daily_summary starts, is_listening = False and
\* is_processing = True
HandleSleep ==
    /\ \E t \in TaskIds :
        /\ FreeSlot(t)
        /\ tasks' = [tasks EXCEPT ![t] =
                        [kind |-> "summary", pc |-> "transcribe", words |-> 0,
                         removed |-> 0,
                         at_signal |-> conversation_history,
                         was_listening |-> is_listening]]
    /\ last_event' = Replied("SLEEP_TRIGGER", OkStatus)
    /\ is_listening' = FALSE
    /\ is_processing' = TRUE
    /\ UNCHANGED world
    /\ UNCHANGED << injected_context, conversation_history, audio_queue,
                    recorded, live_pc, live_chunk, last_memory >>

HandleSignal(sig) ==
    \/ HandleInvalid(sig)
    \/ sig = "WAKE_UP" /\ HandleWakeUp
    \/ sig = "SLEEP_TRIGGER" /\ HandleSleep
    \/ HandleForget(sig)

(* ---- process_forget_memory -------------------------------------------- *)

\* variant: stops before a message that would take the removed word count
\* past the number of words to forget
RECURSIVE ForgetMessages_StopsShort(_, _, _)
ForgetMessages_StopsShort(h, removed, words) ==
    IF h = << >> \/ removed + h[Len(h)].words > words
    THEN h
    ELSE ForgetMessages_StopsShort(SubSeq(h, 1, Len(h) - 1),
                                   removed + h[Len(h)].words, words)

\* variant: goes on removing until the removed word count exceeds the
\* number of words to forget
RECURSIVE ForgetMessages_OneMore(_, _, _)
ForgetMessages_OneMore(h, removed, words) ==
    IF removed > words \/ h = << >>
    THEN h
    ELSE ForgetMessages_OneMore(SubSeq(h, 1, Len(h) - 1),
                                removed + h[Len(h)].words, words)

\* remove messages from the back of the history until the removed word
\* count reaches the number of words to forget
RECURSIVE ForgetMessages(_, _, _)
ForgetMessages(h, removed, words) ==
    IF removed >= words \/ h = << >>
    THEN h
    ELSE ForgetMessages(SubSeq(h, 1, Len(h) - 1), removed + h[Len(h)].words,
                        words)

Ended(t, result) ==
    /\ last_event' = EndOf(t, result)
    /\ tasks' = [tasks EXCEPT ![t] = NoTask]

Goto(t, pc) ==
    /\ tasks' = [tasks EXCEPT ![t].pc = pc]
    /\ last_event' = OtherEvent

ForgetTruncate(t) ==
    /\ tasks[t].kind = "forget" /\ tasks[t].pc = "truncate"
    /\ conversation_history' =
           ForgetMessages(conversation_history, 0, tasks[t].words)
    /\ tasks' = [tasks EXCEPT ![t].pc = "confirm",
                              ![t].removed =
                                  WordCount(conversation_history)
                                  - WordCount(conversation_history')]
    /\ last_event' = OtherEvent
    /\ UNCHANGED world
    /\ UNCHANGED << is_listening, is_processing, injected_context, audio_queue,
                    recorded, live_pc, live_chunk, last_memory >>

\* variant: the workflow returns without clearing is_processing
ForgetConfirm_KeepsProcessing(t) ==
    /\ tasks[t].kind = "forget" /\ tasks[t].pc = "confirm"
    /\ Ended(t, "ok")
    /\ UNCHANGED world
    /\ UNCHANGED << is_listening, is_processing, injected_context,
                    conversation_history, audio_queue, recorded, live_pc,
                    live_chunk, last_memory >>

\* the forget_confirmation chain has answered and tts_service has played
\* the confirmation; is_processing = False
ForgetConfirm(t) ==
    /\ tasks[t].kind = "forget" /\ tasks[t].pc = "confirm"
    /\ is_processing' = FALSE
    /\ Ended(t, "ok")
    /\ UNCHANGED world
    /\ UNCHANGED << is_listening, injected_context, conversation_history,
                    audio_queue, recorded, live_pc, live_chunk, last_memory >>

\* the chain or the TTS call fails: the workflow is abandoned and
\* is_processing is released
ForgetFail(t) ==
    /\ tasks[t].kind = "forget" /\ tasks[t].pc = "confirm"
    /\ is_processing' = FALSE
    /\ Ended(t, "failed")
    /\ UNCHANGED world
    /\ UNCHANGED << is_listening, injected_context, conversation_history,
                    audio_queue, recorded, live_pc, live_chunk, last_memory >>

(* ---- process_daily_summary -------------------------------------------- *)

\* the cloud transcription of the session returns, then the
\* daily_summary_full chain
SummaryStep(t) ==
    /\ tasks[t].kind = "summary" /\ tasks[t].pc = "transcribe"
    /\ Goto(t, "short")
    /\ UNCHANGED world
    /\ UNCHANGED << is_listening, is_processing, injected_context,
                    conversation_history, audio_queue, recorded, live_pc,
                    live_chunk, last_memory >>

\* the record create_memory writes
MemoryRecord(h) == [stored |-> TRUE, raw_conversation |-> h]

\* the daily_summary_short chain returns; database_tool.create_memory
\* stores the diary and returns its uuid; the card is sent to print
SummaryPersist(t) ==
    /\ tasks[t].kind = "summary" /\ tasks[t].pc = "short"
    /\ last_memory' = MemoryRecord(conversation_history)
    /\ tasks' = [tasks EXCEPT ![t].pc = "print", ![t].at_signal = << >>]
    /\ last_event' = OtherEvent
    /\ UNCHANGED world
    /\ UNCHANGED << is_listening, is_processing, injected_context,
                    conversation_history, audio_queue, recorded, live_pc,
                    live_chunk >>

\* variant: the session is closed without emptying the conversation history
SummaryPrint_KeepsHistory(t) ==
    /\ tasks[t].kind = "summary" /\ tasks[t].pc = "print"
    /\ is_listening' = FALSE
    /\ is_processing' = FALSE
    /\ injected_context' = NoContext
    /\ Ended(t, "ok")
    /\ UNCHANGED world
    /\ UNCHANGED << conversation_history, audio_queue, recorded, live_pc,
                    live_chunk, last_memory >>

\* the card is generated and printed, then reset_session: back to IDLE
SummaryPrint(t) ==
    /\ tasks[t].kind = "summary" /\ tasks[t].pc = "print"
    /\ is_listening' = FALSE
    /\ is_processing' = FALSE
    /\ injected_context' = NoContext
    /\ conversation_history' = << >>
    /\ Ended(t, "ok")
    /\ UNCHANGED world
    /\ UNCHANGED << audio_queue, recorded, live_pc, live_chunk, last_memory >>

\* variant: the failure takes back the record the summary has stored
SummaryFail_RollsBack(t) ==
    /\ tasks[t].kind = "summary" /\ tasks[t].pc \in SummaryPcs
    /\ is_processing' = FALSE
    /\ last_memory' = NoMemory
    /\ Ended(t, "failed")
    /\ UNCHANGED world
    /\ UNCHANGED << is_listening, injected_context, conversation_history,
                    audio_queue, recorded, live_pc, live_chunk >>

\* a step of the summary fails: the remaining steps are skipped and
\* is_processing is released
SummaryFail(t) ==
    /\ tasks[t].kind = "summary" /\ tasks[t].pc \in SummaryPcs
    /\ is_processing' = FALSE
    /\ Ended(t, "failed")
    /\ UNCHANGED world
    /\ UNCHANGED << is_listening, injected_context, conversation_history,
                    audio_queue, recorded, live_pc, live_chunk, last_memory >>

TaskStep(t) ==
    \/ ForgetTruncate(t)
    \/ ForgetConfirm(t)
    \/ ForgetFail(t)
    \/ SummaryStep(t)
    \/ SummaryPersist(t)
    \/ SummaryPrint(t)
    \/ SummaryFail(t)

(* ---- audio_service and run_real_time_emotion_analysis ------------------ *)

\* variant: a chunk that finds the queue full is thrown away
Publish_DropsNewest(queue, chunk) ==
    IF Len(queue) >= MaxQueue THEN queue ELSE Append(queue, chunk)

\* the queue after a chunk is put into it: a full queue loses its oldest
\* chunk, the put never waits
Publish(queue, chunk) ==
    IF Len(queue) >= MaxQueue
    THEN Append(Tail(queue), chunk)
    ELSE Append(queue, chunk)

\* the microphone thread puts a recorded chunk into the shared queue while
\* is_listening, up to limit chunks in all
Record(limit) ==
    /\ is_listening
    /\ recorded < limit
    /\ recorded' = recorded + 1
    /\ audio_queue' = Publish(audio_queue, recorded + 1)
    /\ last_event' = OtherEvent
    /\ UNCHANGED world
    /\ UNCHANGED << is_listening, is_processing, injected_context,
                    conversation_history, live_pc, live_chunk, tasks,
                    last_memory >>

RecordChunk == Record(MaxChunks)

\* variant: the loop takes the newest chunk of the queue
LiveTake_Newest ==
    /\ live_pc = "idle"
    /\ is_listening
    /\ audio_queue /= << >>
    /\ live_chunk' = audio_queue[Len(audio_queue)]
    /\ audio_queue' = SubSeq(audio_queue, 1, Len(audio_queue) - 1)
    /\ live_pc' = "transcribing"
    /\ last_event' = OtherEvent
    /\ UNCHANGED world
    /\ UNCHANGED << is_listening, is_processing, injected_context,
                    conversation_history, recorded, tasks, last_memory >>

\* variant: the loop takes a chunk without waiting for the transcription
\* it started
LiveTake_Overlapping ==
    /\ is_listening
    /\ audio_queue /= << >>
    /\ live_chunk' = Head(audio_queue)
    /\ audio_queue' = Tail(audio_queue)
    /\ live_pc' = "transcribing"
    /\ last_event' = OtherEvent
    /\ UNCHANGED world
    /\ UNCHANGED << is_listening, is_processing, injected_context,
                    conversation_history, recorded, tasks, last_memory >>

\* the loop takes a chunk from the queue while is_listening and hands it to
\* transcribe_realtime
LiveTake ==
    /\ live_pc = "idle"
    /\ is_listening
    /\ audio_queue /= << >>
    /\ live_chunk' = Head(audio_queue)
    /\ audio_queue' = Tail(audio_queue)
    /\ live_pc' = "transcribing"
    /\ last_event' = OtherEvent
    /\ UNCHANGED world
    /\ UNCHANGED << is_listening, is_processing, injected_context,
                    conversation_history, recorded, tasks, last_memory >>

Utterance(chunk, words) == [chunk |-> chunk, words |-> words]

\* variant: the answer of the chain is sent as it is
NormalizeEmotion_Raw(response) == response

\* the label taken from the answer of the chain: the answer's own when it
\* is one of the emotion types, neutral otherwise
NormalizeEmotion(response) ==
    IF response \in EmotionLabels THEN response ELSE "neutral"

\* a SET_EMOTION message sent to the clients, and the answer it came from
Emitted(response) ==
    [op |-> "emotion", what |-> NormalizeEmotion(response),
     result |-> response, listening |-> FALSE]

\* a chunk of the analysis loop that yielded no utterance: "empty" or
\* "failed"
Skipped(why) ==
    [op |-> "live", what |-> why, result |-> "none", listening |-> FALSE]

\* the text comes back and is appended to the conversation history; the
\* emotion_analysis chain answers and the label is sent to the front end
LiveAppend ==
    /\ live_pc = "transcribing"
    /\ \E w \in 1 .. MaxWords :
        conversation_history' =
            Append(conversation_history, Utterance(live_chunk, w))
    /\ live_pc' = "idle"
    /\ live_chunk' = 0
    /\ \E response \in Responses : last_event' = Emitted(response)
    /\ UNCHANGED world
    /\ UNCHANGED << is_listening, is_processing, injected_context, audio_queue,
                    recorded, tasks, last_memory >>

\* variant: the empty text is appended like any other
LiveDiscard_AppendsEmpty ==
    /\ live_pc = "transcribing"
    /\ conversation_history' =
           Append(conversation_history, Utterance(live_chunk, 0))
    /\ live_pc' = "idle"
    /\ live_chunk' = 0
    /\ last_event' = Skipped("empty")
    /\ UNCHANGED world
    /\ UNCHANGED << is_listening, is_processing, injected_context, audio_queue,
                    recorded, tasks, last_memory >>

\* transcribe_realtime returns the empty string (silence): nothing is
\* appended and the chain is not called
LiveDiscard ==
    /\ live_pc = "transcribing"
    /\ live_pc' = "idle"
    /\ live_chunk' = 0
    /\ last_event' = Skipped("empty")
    /\ UNCHANGED world
    /\ UNCHANGED << is_listening, is_processing, injected_context,
                    conversation_history, audio_queue, recorded, tasks,
                    last_memory >>

\* variant: the error ends the analysis loop
LiveFail_StopsLoop ==
    /\ live_pc = "transcribing"
    /\ live_pc' = "stopped"
    /\ live_chunk' = 0
    /\ last_event' = Skipped("failed")
    /\ UNCHANGED world
    /\ UNCHANGED << is_listening, is_processing, injected_context,
                    conversation_history, audio_queue, recorded, tasks,
                    last_memory >>

\* transcribe_realtime fails on the chunk: the error is logged and the loop
\* goes on with the next chunk
LiveFail ==
    /\ live_pc = "transcribing"
    /\ live_pc' = "idle"
    /\ live_chunk' = 0
    /\ last_event' = Skipped("failed")
    /\ UNCHANGED world
    /\ UNCHANGED << is_listening, is_processing, injected_context,
                    conversation_history, audio_queue, recorded, tasks,
                    last_memory >>

(* ---- POST /api/session/inject-context --------------------------------- *)

\* the reply to an inject-context request carrying context
Injected(context) ==
    [op |-> "inject", what |-> context, result |-> OkStatus,
     listening |-> FALSE]

\* variant: the new context is joined to the one already injected
InjectContext_Joins(context) ==
    /\ injected_context' =
           IF injected_context = NoContext THEN context ELSE "joined"
    /\ last_event' = Injected(context)
    /\ UNCHANGED world
    /\ UNCHANGED << is_listening, is_processing, conversation_history,
                    audio_queue, recorded, live_pc, live_chunk, tasks,
                    last_memory >>

\* system_state.injected_context = context; 200 OK
InjectContext(context) ==
    /\ injected_context' = context
    /\ last_event' = Injected(context)
    /\ UNCHANGED world
    /\ UNCHANGED << is_listening, is_processing, conversation_history,
                    audio_queue, recorded, live_pc, live_chunk, tasks,
                    last_memory >>

(* ---- firmware of the lamp: loop() -------------------------------------- *)

\* debounceDigital without the wait: every reading that differs from the
\* stable state is taken at once
DebounceDigital_NoWait(raw, s, now, interval) ==
    LET lastChange == IF raw /= s.lastReading THEN now ELSE s.lastChange
        changed == raw /= s.stableState
    IN  [lastReading |-> raw,
         stableState |-> IF changed THEN raw ELSE s.stableState,
         lastChange |-> lastChange,
         changed |-> changed]

\* debounceDigital(raw, lastReading, stableState, lastChange, interval), its
\* return value in the field changed
DebounceDigital(raw, s, now, interval) ==
    LET lastChange == IF raw /= s.lastReading THEN now ELSE s.lastChange
        changed == now - lastChange > interval /\ raw /= s.stableState
    IN  [lastReading |-> raw,
         stableState |-> IF changed THEN raw ELSE s.stableState,
         lastChange |-> lastChange,
         changed |-> changed]

\* what the touch block of loop() prints: both branches print WAKEUP_SIGNAL
TouchLines(t, awake) ==
    IF t.changed /\ t.stableState
    THEN IF awake THEN << "WAKEUP_SIGNAL" >> ELSE << "WAKEUP_SIGNAL" >>
    ELSE << >>

TouchAwake(t, awake) ==
    IF t.changed /\ t.stableState THEN ~awake ELSE awake

ResetWave == [waveState |-> 0, stateTime |-> 0]

WaveResult(w, last, out) == [wave |-> w, lastWaveMillis |-> last, out |-> out]

\* detectWave whose last leg has no time limit
DetectWave_NoLimit(w, last, d, t) ==
    CASE w.waveState = 0 ->
           IF d > DISTANCE_THRESHOLD
           THEN WaveResult([waveState |-> 1, stateTime |-> t], last, << >>)
           ELSE WaveResult(w, last, << >>)
      [] w.waveState = 1 ->
           IF t - w.stateTime > MAX_INTERVAL
           THEN WaveResult(ResetWave, last, << >>)
           ELSE IF d < DISTANCE_THRESHOLD
                THEN WaveResult([waveState |-> 2, stateTime |-> t], last, << >>)
                ELSE WaveResult(w, last, << >>)
      [] OTHER ->
           IF d > DISTANCE_THRESHOLD
           THEN IF t - last >= WAVE_COOLDOWN
                THEN WaveResult(ResetWave, t, << "FORGET_SIGNAL" >>)
                ELSE WaveResult(ResetWave, last, << >>)
           ELSE WaveResult(w, last, << >>)

\* detectWave(d, t): the detector, lastWaveMillis and the line printed
DetectWave(w, last, d, t) ==
    CASE w.waveState = 0 ->
           IF d > DISTANCE_THRESHOLD
           THEN WaveResult([waveState |-> 1, stateTime |-> t], last, << >>)
           ELSE WaveResult(w, last, << >>)
      [] w.waveState = 1 ->
           IF t - w.stateTime > MAX_INTERVAL
           THEN WaveResult(ResetWave, last, << >>)
           ELSE IF d < DISTANCE_THRESHOLD
                THEN WaveResult([waveState |-> 2, stateTime |-> t], last, << >>)
                ELSE WaveResult(w, last, << >>)
      [] w.waveState = 2 ->
           IF t - w.stateTime > MAX_INTERVAL
           THEN WaveResult(ResetWave, last, << >>)
           ELSE IF d > DISTANCE_THRESHOLD
                THEN IF t - last >= WAVE_COOLDOWN
                     THEN WaveResult(ResetWave, t, << "FORGET_SIGNAL" >>)
                     ELSE WaveResult(ResetWave, last, << >>)
                ELSE WaveResult(w, last, << >>)
      [] OTHER -> WaveResult(w, last, << >>)

\* the sampling block of loop()
SampleWave(w, last, d, now, sampled) ==
    IF ~sampled THEN WaveResult(w, last, << >>)
    ELSE IF d < 0 THEN WaveResult(ResetWave, last, << >>)
    ELSE DetectWave(w, last, d, now)

QrResult(q, ready, armed, out) ==
    [qr |-> q, qrReady |-> ready, qrArmed |-> armed, out |-> out]

\* the QR block without the start-up block
QrScan_NoBlock(q, ready, armed, lightValue, now, later) ==
    LET deb == DebounceDigital(lightValue > LIGHT_THRESHOLD, q, later, QR_DEBOUNCE)
        fire == deb.changed /\ deb.stableState /\ ~armed
        dark == deb.changed /\ ~deb.stableState
    IN  IF fire THEN QrResult(deb, FALSE, TRUE, << "REWIND_SIGNAL" >>)
        ELSE IF dark THEN QrResult(deb, TRUE, FALSE, << >>)
        ELSE QrResult(deb, TRUE, armed, << >>)

\* the QR block of loop(): now was read when loop() began, later is millis()
\* when debounceDigital reads it
QrScan(q, ready, armed, lightValue, now, later) ==
    LET open == ready \/ now > QR_STARTUP_BLOCK
        deb == DebounceDigital(lightValue > LIGHT_THRESHOLD, q, later, QR_DEBOUNCE)
        fire == deb.changed /\ deb.stableState /\ open /\ ~armed
        dark == deb.changed /\ ~deb.stableState
    IN  IF fire THEN QrResult(deb, FALSE, TRUE, << "REWIND_SIGNAL" >>)
        ELSE IF dark
             THEN QrResult(deb, open \/ now > QR_STARTUP_BLOCK, FALSE, << >>)
             ELSE QrResult(deb, open, armed, << >>)

Count(out, line) == Cardinality({i \in DOMAIN out : out[i] = line})

\* an observer of the pins and of the serial line
Observed(touchRaw, d, now, sampled, out) ==
    [far_at |-> IF sampled /\ d > DISTANCE_THRESHOLD THEN now ELSE seen.far_at,
     near_at |-> IF /\ sampled
                    /\ d < DISTANCE_THRESHOLD
                    /\ seen.far_at /= Never
                    /\ now - seen.far_at <= MAX_INTERVAL
                 THEN now ELSE seen.near_at,
     forget_at |-> IF Count(out, "FORGET_SIGNAL") > 0
                   THEN now ELSE seen.forget_at,
     touch_since |-> IF touchRaw /= reading.touchRaw
                     THEN now ELSE seen.touch_since,
     rewinds |-> seen.rewinds + Count(out, "REWIND_SIGNAL")]

\* one loop(): the touch block, the sampling block, the serial command, the
\* QR block and the closing delay
Loop(touchRaw, d, cmd, lightValue) ==
    LET now == clock
        t == DebounceDigital(touchRaw, touch, now, TOUCH_DEBOUNCE)
        sampled == now - lastSample >= SAMPLE_INTERVAL
        w == SampleWave(wave, lastWaveMillis, d, now, sampled)
        later == IF cmd = "PRINT_CARD" THEN now + SpinDelay ELSE now
        q == QrScan(qr, qrReady, qrArmed, lightValue, now, later)
        out == TouchLines(t, isAwake) \o w.out \o q.out
    IN  /\ touch' = t
        /\ isAwake' = TouchAwake(t, isAwake)
        /\ lastSample' = IF sampled THEN now ELSE lastSample
        /\ wave' = w.wave
        /\ lastWaveMillis' = w.lastWaveMillis
        /\ qr' = q.qr
        /\ qrReady' = q.qrReady
        /\ qrArmed' = q.qrArmed
        /\ serial_out' = out
        /\ reading' = [touchRaw |-> touchRaw, d |-> d, lightValue |-> lightValue,
                       cmd |-> cmd, sampled |-> sampled]
        /\ seen' = Observed(touchRaw, d, now, sampled, out)
        /\ clock' = later + LoopTime
        /\ UNCHANGED << agent_vars, store_vars, hook_vars, page_vars >>

(* ---- core/tools.py: the database tool ----------------------------------- *)

StoreReply(op, id, status, body) ==
    [op |-> op, uuid |-> id, status |-> status, body |-> body]

Stored(id) == datastore[id] /= Absent

\* create_memory(summary_data): a new uuid, the data written under it
CreateMemory(summary_data) ==
    /\ \E id \in MemoryIds :
           /\ ~Stored(id)
           /\ datastore' = [datastore EXCEPT ![id] = summary_data]
           /\ store_reply' = StoreReply("create", id, OkStatus, summary_data)
    /\ UNCHANGED << agent_vars, firmware_vars, hook_vars, page_vars >>

\* a read that takes the file away
ReadMemory_Consumes(id) ==
    /\ datastore' = [datastore EXCEPT ![id] = Absent]
    /\ store_reply' =
           IF Stored(id) THEN StoreReply("read", id, OkStatus, datastore[id])
           ELSE StoreReply("read", id, NotFoundStatus, Absent)
    /\ UNCHANGED << agent_vars, firmware_vars, hook_vars, page_vars >>

\* read_memory(uuid) behind GET /api/memory/{uuid}
ReadMemory(id) ==
    /\ store_reply' =
           IF Stored(id) THEN StoreReply("read", id, OkStatus, datastore[id])
           ELSE StoreReply("read", id, NotFoundStatus, Absent)
    /\ UNCHANGED datastore
    /\ UNCHANGED << agent_vars, firmware_vars, hook_vars, page_vars >>

\* update_memory(uuid, update_data) behind PUT /api/memory/{uuid}: read,
\* replace full_summary, write back
UpdateMemory(id, full_summary) ==
    /\ Stored(id)
    /\ LET updated == [datastore[id] EXCEPT !.full_summary = full_summary]
       IN  /\ datastore' = [datastore EXCEPT ![id] = updated]
           /\ store_reply' = StoreReply("update", id, OkStatus, updated)
    /\ UNCHANGED << agent_vars, firmware_vars, hook_vars, page_vars >>

StoreNext ==
    \/ \E summary_data \in Summaries : CreateMemory(summary_data)
    \/ \E id \in MemoryIds : ReadMemory(id)
    \/ \E id \in MemoryIds, full_summary \in Texts : UpdateMemory(id, full_summary)

StoreSpec == Init /\ [][StoreNext]_vars

(* ---- useProjectorSocket: connect, onopen, onclose, cleanup -------------- *)

IsOpen(ss, i) == i /= 0 /\ ss[i].readyState = "OPEN"

Live(i) == sockets[i].readyState \in {"CONNECTING", "OPEN"}

\* connect() of the effect for url: nothing when wsRef.current is open, a new
\* WebSocket otherwise
Connect(ss, url) ==
    IF IsOpen(ss, wsRef)
    THEN sockets' = ss /\ wsRef' = wsRef
    ELSE /\ sockets' = Append(ss, NewSocket(url))
         /\ wsRef' = Len(ss) + 1

\* sockets created so far and sockets the pending timers will create
\* the sum of a function over Urls
RECURSIVE Sum(_, _)
Sum(f, S) == IF S = {} THEN 0 ELSE LET x == CHOOSE y \in S : TRUE
                                   IN  f[x] + Sum(f, S \ {x})

\* sockets created so far and sockets the pending timers will ask for
Planned == Len(sockets) + Sum(timers, Urls)

\* the server accepts the connection: onopen
Opened(i) ==
    /\ i \in DOMAIN sockets
    /\ sockets[i].readyState = "CONNECTING"
    /\ sockets' = [sockets EXCEPT ![i].readyState = "OPEN"]
    /\ isConnected' = TRUE
    /\ UNCHANGED << wsRef, timers, wsUrl, mounted >>
    /\ UNCHANGED << agent_vars, firmware_vars, store_vars, page_vars >>

\* onclose that schedules no reconnect
Closed_NoRetry(i) ==
    /\ Live(i)
    /\ Planned < MaxSockets
    /\ sockets' = [sockets EXCEPT ![i].readyState = "CLOSED"]
    /\ IF sockets[i].onclose
       THEN /\ isConnected' = FALSE
            /\ wsRef' = 0
            /\ UNCHANGED timers
       ELSE UNCHANGED << isConnected, wsRef, timers >>
    /\ UNCHANGED << wsUrl, mounted >>
    /\ UNCHANGED << agent_vars, firmware_vars, store_vars, page_vars >>

\* the connection fails or is lost (onerror closes it as well): onclose, if
\* it is still set, forgets the socket and schedules connect
Closed(i) ==
    /\ Live(i)
    /\ Planned < MaxSockets
    /\ sockets' = [sockets EXCEPT ![i].readyState = "CLOSED"]
    /\ IF sockets[i].onclose
       THEN /\ isConnected' = FALSE
            /\ wsRef' = 0
            /\ timers' = [timers EXCEPT ![sockets[i].url] = @ + 1]
       ELSE UNCHANGED << isConnected, wsRef, timers >>
    /\ UNCHANGED << wsUrl, mounted >>
    /\ UNCHANGED << agent_vars, firmware_vars, store_vars, page_vars >>

\* 3 seconds have passed: the timer calls the connect it was given
Reconnect(url) ==
    /\ timers[url] > 0
    /\ timers' = [timers EXCEPT ![url] = @ - 1]
    /\ Connect(sockets, url)
    /\ UNCHANGED << isConnected, wsUrl, mounted >>
    /\ UNCHANGED << agent_vars, firmware_vars, store_vars, page_vars >>

\* the sockets after the cleanup function of the effect
CleanedUp ==
    IF wsRef /= 0
    THEN [sockets EXCEPT ![wsRef].onclose = FALSE,
                         ![wsRef].readyState = "CLOSED"]
    ELSE sockets

\* the timers after the cleanup function of the effect: it clears none
TimersLeft == timers

\* the component unmounts: the cleanup runs
Unmount ==
    /\ mounted
    /\ mounted' = FALSE
    /\ sockets' = CleanedUp
    /\ timers' = TimersLeft
    /\ UNCHANGED << wsRef, isConnected, wsUrl >>
    /\ UNCHANGED << agent_vars, firmware_vars, store_vars, page_vars >>

\* a render with another wsUrl: the cleanup runs, then the effect runs again
\* and calls its connect
ChangeUrl ==
    /\ mounted
    /\ wsUrl < MaxUrls
    /\ Planned < MaxSockets
    /\ wsUrl' = wsUrl + 1
    /\ timers' = TimersLeft
    /\ Connect(CleanedUp, wsUrl + 1)
    /\ UNCHANGED << isConnected, mounted >>
    /\ UNCHANGED << agent_vars, firmware_vars, store_vars, page_vars >>

HookNext ==
    \/ \E i \in 1 .. MaxSockets : Opened(i)
    \/ \E i \in DOMAIN sockets : Closed(i)
    \/ \E url \in Urls : Reconnect(url)
    \/ Unmount
    \/ ChangeUrl

HookSpec == Init /\ [][HookNext]_vars

\* every timer fires and the server accepts every connection it is asked for
FairHookSpec ==
    /\ HookSpec
    /\ \A url \in Urls : WF_vars(Reconnect(url))
    /\ \A i \in 1 .. MaxSockets : WF_vars(Opened(i))

(* ---- useProjectorSocket: onmessage and the emotion interval ------------ *)

\* emotionMap
EmotionMap(key) ==
    CASE key = "happy" -> 1
      [] key = "sad" -> 2
      [] key = "warm" -> 3
      [] key = "optimistic" -> 4
      [] key = "anxious" -> 5
      [] key = "peaceful" -> 6
      [] key = "depressed" -> 7
      [] key = "lonely" -> 8
      [] key = "angry" -> 9
      [] key = "neutral" -> 0
      [] OTHER -> Null

\* String.toLowerCase on the labels the backend is seen to send
ToLowerCase(label) ==
    CASE label = "Happy" -> "happy"
      [] label = "NEUTRAL" -> "neutral"
      [] OTHER -> label

\* payload.emotion of a SET_EMOTION message
SentLabels == {"Happy", "sad", "NEUTRAL", "joyful"}

\* payload.mode of a SET_MODE message
SentModes == {"IDLE", "SLEEP", "FORGET"}

Rest_OfFeed ==
    << agent_vars, firmware_vars, store_vars, hook_vars, state_vars, slots_vars,
       player_vars >>

Heard(op, arg, latest) == [op |-> op, arg |-> arg, latest |-> latest]

\* onmessage of an open socket, SET_EMOTION, the first known label of a window
\* kept
OnEmotion_KeepsFirst(label) ==
    /\ \E i \in DOMAIN sockets : sockets[i].readyState = "OPEN"
    /\ LET emotionKey == ToLowerCase(label)
       IN  /\ latestEmotionRef' =
                  IF EmotionMap(emotionKey) /= Null /\ latestEmotionRef = Null
                  THEN EmotionMap(emotionKey) ELSE latestEmotionRef
           /\ heard' = Heard("emotion", label,
                             IF EmotionMap(emotionKey) /= Null
                             THEN EmotionMap(emotionKey) ELSE heard.latest)
    /\ UNCHANGED << emotionIndex, mode >>
    /\ UNCHANGED Rest_OfFeed

\* onmessage of an open socket, SET_EMOTION
OnEmotion(label) ==
    /\ \E i \in DOMAIN sockets : sockets[i].readyState = "OPEN"
    /\ LET emotionKey == ToLowerCase(label)
       IN  /\ latestEmotionRef' =
                  IF EmotionMap(emotionKey) /= Null
                  THEN EmotionMap(emotionKey) ELSE latestEmotionRef
           /\ heard' = Heard("emotion", label,
                             IF EmotionMap(emotionKey) /= Null
                             THEN EmotionMap(emotionKey) ELSE heard.latest)
    /\ UNCHANGED << emotionIndex, mode >>
    /\ UNCHANGED Rest_OfFeed

\* onmessage of an open socket, SET_MODE
OnMode(newMode) ==
    /\ \E i \in DOMAIN sockets : sockets[i].readyState = "OPEN"
    /\ mode' = newMode
    /\ heard' = Heard("mode", newMode, heard.latest)
    /\ UNCHANGED << latestEmotionRef, emotionIndex >>
    /\ UNCHANGED Rest_OfFeed

\* the setInterval callback, every emotionInterval, until the unmount
Tick ==
    /\ mounted
    /\ IF latestEmotionRef /= Null
       THEN emotionIndex' = latestEmotionRef /\ latestEmotionRef' = Null
       ELSE UNCHANGED << emotionIndex, latestEmotionRef >>
    /\ heard' = Heard("tick", "", Null)
    /\ UNCHANGED mode
    /\ UNCHANGED Rest_OfFeed

FeedNext ==
    \/ \E i \in 1 .. MaxSockets : Opened(i)
    \/ \E label \in SentLabels : OnEmotion(label)
    \/ \E newMode \in SentModes : OnMode(newMode)
    \/ Tick
    \/ Unmount

FeedSpec == Init /\ [][FeedNext]_vars

(* ---- useProjectorState: commands and the auto-reset of the mode --------- *)

ForgetReset == 5000

RewindReset == 10000

\* the modes a command or a key can set
StateModes == {"IDLE", "SLEEP", "FORGET", "REWIND"}

\* EMOTION_MAP: the emotions a command or a key can set
StateEmotions ==
    {"neutral", "happy", "sad", "warm", "optimistic", "anxious", "peaceful",
     "depressed", "lonely", "angry"}

Rest_OfState ==
    << agent_vars, firmware_vars, store_vars, hook_vars, feed_vars, slots_vars,
       player_vars >>

\* the auto-reset effect for a mode: the timer it starts
ResetDelay(m) ==
    CASE m = "FORGET" -> ForgetReset
      [] m = "REWIND" -> RewindReset
      [] OTHER -> 0

\* an effect whose cleanup leaves the old timer running
AfterModeChange_KeepsTimer(m) ==
    IF ResetDelay(m) /= 0 THEN ResetDelay(m) ELSE reset_timer

\* a change of mode: the cleanup clears the old timer, the effect runs again
AfterModeChange(m) == ResetDelay(m)

\* SET_MODE (or a key): setMode; the effect runs only when mode changes
SetMode(newMode) ==
    /\ state_mode' = newMode
    /\ reset_timer' = IF newMode /= state_mode THEN AfterModeChange(newMode)
                      ELSE reset_timer
    /\ commanded' = [op |-> "SET_MODE", arg |-> newMode]
    /\ UNCHANGED << emotion, state_connected >>
    /\ UNCHANGED Rest_OfState

\* SET_EMOTION (or a key): setEmotion
SetEmotion(newEmotion) ==
    /\ emotion' = newEmotion
    /\ commanded' = [op |-> "SET_EMOTION", arg |-> newEmotion]
    /\ UNCHANGED << state_mode, reset_timer, state_connected >>
    /\ UNCHANGED Rest_OfState

\* the auto-reset timer fires: setMode("IDLE")
AutoReset ==
    /\ reset_timer /= 0
    /\ state_mode' = "IDLE"
    /\ reset_timer' = IF state_mode /= "IDLE" THEN AfterModeChange("IDLE") ELSE 0
    /\ commanded' = [op |-> "timer", arg |-> ""]
    /\ UNCHANGED << emotion, state_connected >>
    /\ UNCHANGED Rest_OfState

\* onopen and onclose of the hook's WebSocket
StateConnection(connected) ==
    /\ state_connected /= connected
    /\ state_connected' = connected
    /\ UNCHANGED << emotion, state_mode, reset_timer, commanded >>
    /\ UNCHANGED Rest_OfState

StateNext ==
    \/ \E connected \in BOOLEAN : StateConnection(connected)
    \/ \E newMode \in StateModes : SetMode(newMode)
    \/ \E newEmotion \in StateEmotions : SetEmotion(newEmotion)
    \/ AutoReset

StateSpec == Init /\ [][StateNext]_vars

\* every timer fires
FairStateSpec == StateSpec /\ WF_vars(AutoReset)

(* ---- components/VideoPlayer.jsx: the two-slot player -------------------- *)

\* the emotions the emotion prop is followed through
TargetEmotions == {"neutral", "happy", "sad"}

Rest_OfSlots ==
    << agent_vars, firmware_vars, store_vars, hook_vars, feed_vars, state_vars,
       player_vars >>

Other(x) == IF x = "A" THEN "B" ELSE "A"

\* setVideoASrc/setVideoBSrc with the ref: a src that differs remounts the
\* element (key={src}), which loads and will report canplaythrough; the same
\* src changes nothing
Loaded(ss, x, newEmotion) ==
    IF ss[x].src = EmotionVideos(newEmotion)
    THEN [ss EXCEPT ![x].emotion = newEmotion]
    ELSE [ss EXCEPT ![x] = Element(EmotionVideos(newEmotion), newEmotion, TRUE, FALSE)]

\* transitionToVideo(newEmotion, newSlot)
TransitionToVideo(ss, cooldown, newEmotion, newSlot) ==
    IF cooldown THEN ss ELSE Loaded(ss, newSlot, newEmotion)

\* the effect on [targetEmotion, activeSlot, transitionToVideo], run after a
\* render in which one of them (or isOnCooldown) has changed
TargetEffect(ss, target, active, cooldown) ==
    IF target /= "" /\ target /= ss[active].emotion
    THEN TransitionToVideo(ss, cooldown, target, Other(active))
    ELSE ss

\* the parent renders the player with another emotion
SetTarget(e) ==
    /\ e /= targetEmotion
    /\ targetEmotion' = e
    /\ slot' = TargetEffect(slot, e, activeSlot, isOnCooldown)
    /\ UNCHANGED << activeSlot, isOnCooldown, cooldown_timers >>
    /\ UNCHANGED Rest_OfSlots

\* onCanPlayThrough of a slot: handleCanPlayThrough
CanPlayThrough(x) ==
    /\ slot[x].loading
    /\ IF activeSlot = x
       THEN /\ slot' = [slot EXCEPT ![x].loading = FALSE]
            /\ UNCHANGED << activeSlot, isOnCooldown, cooldown_timers >>
       ELSE /\ activeSlot' = x
            /\ isOnCooldown' = TRUE
            /\ cooldown_timers' = cooldown_timers + 1
            /\ slot' = TargetEffect([slot EXCEPT ![x].loading = FALSE],
                                    targetEmotion, x, TRUE)
    /\ UNCHANGED targetEmotion
    /\ UNCHANGED Rest_OfSlots

\* the cooldown timer fires: setIsOnCooldown(false)
CooldownOver ==
    /\ cooldown_timers > 0
    /\ cooldown_timers' = cooldown_timers - 1
    /\ isOnCooldown' = FALSE
    /\ slot' = IF isOnCooldown
               THEN TargetEffect(slot, targetEmotion, activeSlot, FALSE)
               ELSE slot
    /\ UNCHANGED << targetEmotion, activeSlot >>
    /\ UNCHANGED Rest_OfSlots

\* onEnded of the playing video (a neutral video loops): handleVideoEnded
VideoEnded(x) ==
    /\ x = activeSlot
    /\ ~slot[x].loading
    /\ ~slot[x].ended
    /\ slot[x].emotion /= "neutral"
    /\ LET ss == [slot EXCEPT ![x].ended = TRUE]
       IN  slot' = IF isOnCooldown THEN ss
                   ELSE TransitionToVideo(ss, isOnCooldown, "neutral", Other(x))
    /\ UNCHANGED << targetEmotion, activeSlot, isOnCooldown, cooldown_timers >>
    /\ UNCHANGED Rest_OfSlots

SlotsNext ==
    \/ \E e \in TargetEmotions : SetTarget(e)
    \/ \E x \in {"A", "B"} : CanPlayThrough(x)
    \/ CooldownOver
    \/ \E x \in {"A", "B"} : VideoEnded(x)

SlotsSpec == Init /\ [][SlotsNext]_vars

\* every element that loads reports canplaythrough, every timer fires, every
\* video that does not loop ends
FairSlotsSpec ==
    /\ SlotsSpec
    /\ \A x \in {"A", "B"} : WF_vars(CanPlayThrough(x)) /\ WF_vars(VideoEnded(x))
    /\ WF_vars(CooldownOver)

(* ---- pages/VideoPlayer.jsx: the index-driven player -------------------- *)

\* videos.length
NumVideos == 3

\* the most timers and transitions pending at once
MaxTimers == 3

\* the values the parent passes as index: one below the range, the range, one
\* above it
IndexProps == (0 - 1) .. NumVideos

Rest_OfPlayer ==
    << agent_vars, firmware_vars, store_vars, hook_vars, feed_vars, state_vars,
       slots_vars >>

\* typeof index === "number" && index >= 0 && index < videos.length
IsValidIndex(i) == i /= Null /\ i >= 0 /\ i < NumVideos

\* getNextIndex() of a render whose currentIndex is cur
GetNextIndex(cur) ==
    IF IsValidIndex(nextIndexFromPropRef) /\ nextIndexFromPropRef /= cur
    THEN nextIndexFromPropRef
    ELSE 0

\* clearTimeout(timerRef.current)
Cleared(ts) == SelectSeq(ts, LAMBDA t : t.id /= timerRef)

\* an id no timer of ts has
FreeId(ts) ==
    CHOOSE i \in 1 .. MaxTimers + 1 :
        /\ \A k \in DOMAIN ts : ts[k].id /= i
        /\ \A j \in 1 .. i - 1 : \E k \in DOMAIN ts : ts[k].id = j

Pending == Len(cycle_timers) + Len(transition_timers)

\* the effect on [index]
IndexProp(i) ==
    /\ i /= index
    /\ index' = i
    /\ nextIndexFromPropRef' = IF IsValidIndex(i) THEN i ELSE nextIndexFromPropRef
    /\ pending_prop' = IF IsValidIndex(i) THEN i ELSE pending_prop
    /\ told' = FALSE
    /\ UNCHANGED << isHandWaving, currentIndex, isSecondActive, isTransitioning,
                    showHandWavingOverlay, videoA, videoB, timerRef,
                    cycle_timers, transition_timers, hand_timer >>
    /\ UNCHANGED Rest_OfPlayer

\* the parent changes isHandWaving: the cleanup of the effect on
\* [isHandWaving], the effect, and the effect on [showHandWavingOverlay,
\* isHandWaving]
HandWaving(b) ==
    /\ b /= isHandWaving
    /\ (~b /\ ~showHandWavingOverlay) => Pending < MaxTimers
    /\ isHandWaving' = b
    /\ IF b /\ ~showHandWavingOverlay
       THEN /\ showHandWavingOverlay' = TRUE
            /\ cycle_timers' = Cleared(cycle_timers)
            /\ timerRef' = 0
            /\ hand_timer' = TRUE
       ELSE /\ hand_timer' = FALSE
            /\ UNCHANGED showHandWavingOverlay
            /\ IF ~b /\ ~showHandWavingOverlay
               THEN LET id == FreeId(cycle_timers)
                    IN  /\ cycle_timers' =
                               Append(cycle_timers,
                                      Timer(id, Closure(currentIndex, isSecondActive,
                                                        isTransitioning)))
                        /\ timerRef' = id
               ELSE UNCHANGED << cycle_timers, timerRef >>
    /\ told' = FALSE
    /\ UNCHANGED << index, currentIndex, isSecondActive, isTransitioning, videoA,
                    videoB, nextIndexFromPropRef, transition_timers, pending_prop >>
    /\ UNCHANGED Rest_OfPlayer

\* the timer of handWavingTimerRef fires, handWavingDuration after the
\* overlay was shown; isHandWaving has not changed since, so the effect on
\* [showHandWavingOverlay, isHandWaving] that follows starts no cycle
HandTimer ==
    /\ hand_timer
    /\ hand_timer' = FALSE
    /\ showHandWavingOverlay' = FALSE
    /\ told' = TRUE
    /\ UNCHANGED << index, isHandWaving, currentIndex, isSecondActive,
                    isTransitioning, videoA, videoB, nextIndexFromPropRef,
                    timerRef, cycle_timers, transition_timers, pending_prop >>
    /\ UNCHANGED Rest_OfPlayer

\* the oldest playback timer fires, interval after startPlaybackCycle: the
\* callback sees the currentIndex, isSecondActive, isTransitioning and
\* showHandWavingOverlay (false) of the render that made it
CycleTimer ==
    /\ cycle_timers /= << >>
    /\ LET t == Head(cycle_timers)
           rest == Tail(cycle_timers)
           nextIndex == GetNextIndex(t.c.cur)
       IN  IF nextIndex /= t.c.cur
           THEN \* startTransition(nextIndex)
                /\ cycle_timers' = rest
                /\ timerRef' = IF timerRef = t.id THEN 0 ELSE timerRef
                /\ IF t.c.trans
                   THEN UNCHANGED << videoA, videoB, isTransitioning,
                                     transition_timers >>
                   ELSE /\ videoA' = IF t.c.second THEN nextIndex ELSE videoA
                        /\ videoB' = IF t.c.second THEN videoB ELSE nextIndex
                        /\ isTransitioning' = TRUE
                        /\ transition_timers' =
                               Append(transition_timers,
                                      [target |-> nextIndex, second |-> t.c.second])
           ELSE \* startPlaybackCycle()
                /\ cycle_timers' = Append(rest, t)
                /\ timerRef' = t.id
                /\ UNCHANGED << videoA, videoB, isTransitioning, transition_timers >>
    /\ told' = FALSE
    /\ UNCHANGED << index, isHandWaving, currentIndex, isSecondActive,
                    showHandWavingOverlay, nextIndexFromPropRef, hand_timer,
                    pending_prop >>
    /\ UNCHANGED Rest_OfPlayer

\* the end of the oldest transition, transitionDuration after startTransition,
\* and the effect on [currentIndex] with its cleanup
TransitionDone ==
    /\ transition_timers /= << >>
    /\ LET d == Head(transition_timers)
       IN  /\ currentIndex' = d.target
           /\ isSecondActive' = ~d.second
           /\ isTransitioning' = FALSE
           /\ transition_timers' = Tail(transition_timers)
           /\ pending_prop' = IF d.target = pending_prop THEN Null ELSE pending_prop
           /\ IF d.target = currentIndex
              THEN UNCHANGED << cycle_timers, timerRef >>
              ELSE IF ~showHandWavingOverlay /\ ~isHandWaving
                   THEN LET id == FreeId(Cleared(cycle_timers))
                        IN  /\ cycle_timers' =
                                   Append(Cleared(cycle_timers),
                                          Timer(id, Closure(d.target, ~d.second, FALSE)))
                            /\ timerRef' = id
                   ELSE /\ cycle_timers' = Cleared(cycle_timers)
                        /\ timerRef' = 0
    /\ told' = FALSE
    /\ UNCHANGED << index, isHandWaving, showHandWavingOverlay, videoA, videoB,
                    nextIndexFromPropRef, hand_timer >>
    /\ UNCHANGED Rest_OfPlayer

PlayerNext ==
    \/ \E i \in IndexProps : IndexProp(i)
    \/ \E b \in BOOLEAN : HandWaving(b)
    \/ HandTimer
    \/ CycleTimer
    \/ TransitionDone

PlayerSpec == Init /\ [][PlayerNext]_vars

\* every timer fires
FairPlayerSpec ==
    PlayerSpec /\ WF_vars(HandTimer) /\ WF_vars(CycleTimer) /\ WF_vars(TransitionDone)

(* ---- the projector: useProjectorSocket feeding the index-driven player -- *)

\* the page renders the player with the hook's emotionIndex as its index
RenderIndex == IndexProp(emotionIndex)

\* no render is outstanding: the player has the emotionIndex of the hook
Rendered == index = emotionIndex

\* a change of emotionIndex is rendered before the next message or timer
ProjectorNext ==
    \/ RenderIndex
    \/ Rendered /\ \E i \in 1 .. MaxSockets : Opened(i)
    \/ Rendered /\ \E label \in SentLabels : OnEmotion(label)
    \/ Rendered /\ Tick
    \/ Rendered /\ CycleTimer
    \/ Rendered /\ TransitionDone

ProjectorSpec == Init /\ [][ProjectorNext]_vars

\* the interval and every timer fire, a state change is rendered
FairProjectorSpec ==
    /\ ProjectorSpec
    /\ WF_vars(Tick)
    /\ WF_vars(RenderIndex)
    /\ WF_vars(CycleTimer)
    /\ WF_vars(TransitionDone)

Next ==
    \/ \E sig \in Signals : HandleSignal(sig)
    \/ \E t \in TaskIds : TaskStep(t)
    \/ RecordChunk
    \/ LiveTake
    \/ LiveAppend
    \/ LiveDiscard
    \/ LiveFail
    \/ \E context \in Contexts : InjectContext(context)

Spec == Init /\ [][Next]_vars

\* every collaborator call of a running workflow returns or fails
FairSpec == Spec /\ \A t \in TaskIds : WF_agent_vars(TaskStep(t))

\* the audio queue alone: the session listens, frames are recorded faster
\* than the analysis loop takes them
ChannelNext ==
    \/ HandleWakeUp
    \/ Record(MaxFrames)
    \/ LiveTake
    \/ LiveAppend
    \/ LiveDiscard

ChannelSpec == Init /\ [][ChannelNext]_vars

\* the lamp alone, one sensor at a time; the other sensors read what they
\* read when nothing is near the lamp
Far == DISTANCE_THRESHOLD + 10

Dark == LIGHT_THRESHOLD

TouchStep ==
    /\ clock < TouchHorizon
    /\ \E touchRaw \in BOOLEAN : Loop(touchRaw, Far, "", Dark)

TouchSpec == Init /\ [][TouchStep]_vars

WaveStep ==
    /\ clock < WaveHorizon
    /\ \E d \in Distances : Loop(FALSE, d, "", Dark)

WaveSpec == Init /\ [][WaveStep]_vars

QrStep ==
    /\ clock < QrHorizon
    /\ \E lightValue \in LightValues, cmd \in Commands :
           Loop(FALSE, Far, cmd, lightValue)

QrSpec == Init /\ [][QrStep]_vars


(* ---- hardware gateway: serial line -> POST /api/device/signal ---------- *)

Keywords == {"WAKEUP_SIGNAL", "REWIND_SIGNAL", "SLEEP_SIGNAL", "FORGET_SIGNAL"}

\* the protocol table of the gateway
Translate(keyword) ==
    CASE keyword = "WAKEUP_SIGNAL" -> "WAKE_UP"
      [] keyword = "REWIND_SIGNAL" -> "REWIND"
      [] keyword = "SLEEP_SIGNAL" -> "SLEEP"
      [] keyword = "FORGET_SIGNAL" -> "FORGET"

\* the gateway posts the translation of a line the lamp has printed
Forward ==
    /\ serial_out /= << >>
    /\ \E i \in DOMAIN serial_out :
           /\ serial_out[i] \in Keywords
           /\ HandleSignal(Translate(serial_out[i]))

\* one gesture at a time: nothing, a touch, a hand before the sensor
Gestures ==
    { [touchRaw |-> FALSE, d |-> Far],
      [touchRaw |-> TRUE, d |-> Far],
      [touchRaw |-> FALSE, d |-> DISTANCE_THRESHOLD - 10] }

GestureStep ==
    /\ clock < GatewayHorizon
    /\ \E g \in Gestures : Loop(g.touchRaw, g.d, "", Dark)

GatewayNext == GestureStep \/ Forward

GatewaySpec == Init /\ [][GatewayNext]_vars

(* ======================================================================= *)
(* Properties                                                              *)
(* ======================================================================= *)

\* the step is the handling of a POST /api/device/signal carrying sig
Handled(sig) == last_event'.op = "signal" /\ last_event'.what = sig

\* neither listening nor processing: the IDLE state of the session
IdleFlags == ~is_listening /\ ~is_processing

\* the session state reset_session leaves
AllReset ==
    /\ conversation_history = << >>
    /\ is_listening = FALSE
    /\ is_processing = FALSE
    /\ injected_context = NoContext

\* the analysis loop appends an utterance in this step
LiveAppended ==
    /\ live_pc = "transcribing"
    /\ live_pc' = "idle"
    /\ conversation_history' /= conversation_history

(* C1: the forget workflow and the daily summary workflow are never running
   at the same time, whatever signals arrive and whenever. *)
C1_ForgetAndSummaryExclusive ==
    ~(RunningKind("forget") /\ RunningKind("summary"))

(* C2: is_processing is true only while a workflow is running, and whenever
   it is true it becomes false again, also when a collaborator call of the
   workflow fails. *)
C2_ProcessingReleased ==
    /\ [](is_processing => \E t \in TaskIds : Running(t))
    /\ []<>~is_processing

\* a workflow has just failed and is_processing is false
C2_Witness ==
    /\ last_event.op = "ended"
    /\ last_event.result = "failed"
    /\ ~is_processing
    /\ \A t \in TaskIds : ~Running(t)

(* C3: while is_processing is true the analysis loop appends nothing to the
   conversation history. *)
C3_NoLiveAppendWhileProcessing ==
    [][is_processing => ~LiveAppended]_vars

(* C4: a signal that is none of WAKE_UP, SLEEP_TRIGGER, FORGET_8S and
   FORGET_30S is answered 400 "Invalid signal type." in every session state,
   and is_listening, is_processing, the conversation history, the injected
   context, the running workflows and the stored diary stay as they were. *)
C4_InvalidSignalRejected ==
    [][\A sig \in Signals \ ValidSignals :
          Handled(sig) =>
              /\ last_event'.result = InvalidStatus
              /\ UNCHANGED << is_listening, is_processing,
                              conversation_history, injected_context, tasks,
                              last_memory >>]_vars

\* BOGUS was just rejected while the session was listening and processing,
\* with a history and an injected context in place
C4_Witness ==
    /\ last_event.op = "signal"
    /\ last_event.what = "BOGUS"
    /\ last_event.result = InvalidStatus
    /\ last_event.listening
    /\ is_listening /\ is_processing
    /\ conversation_history /= << >>
    /\ injected_context /= NoContext

(* C5: a FORGET_8S, FORGET_30S or SLEEP_TRIGGER signal that arrives while
   is_processing is true starts no workflow and is answered with an error. *)
C5_BusySignalRejected ==
    [][\A sig \in {"FORGET_8S", "FORGET_30S", "SLEEP_TRIGGER"} :
          (is_processing /\ Handled(sig)) =>
              /\ last_event'.result /= OkStatus
              /\ tasks' = tasks]_vars

(* C6: a WAKE_UP signal handled in the IDLE state leaves the conversation
   history empty and is_listening true, whatever the history held. *)
C6_WakeUpInIdleStartsFresh ==
    [][(IdleFlags /\ Handled("WAKE_UP")) =>
          (conversation_history' = << >> /\ is_listening')]_vars

\* WAKE_UP was just handled in IDLE, after a session whose summary failed
\* had left its history behind
C6_Witness ==
    /\ last_event.op = "signal"
    /\ last_event.what = "WAKE_UP"
    /\ ~last_event.listening
    /\ is_listening /\ ~is_processing
    /\ conversation_history = << >>
    /\ recorded > 0

(* C7: a WAKE_UP signal handled outside IDLE (while listening, or while a
   workflow is processing) leaves the conversation history and the running
   workflows as they were. *)
C7_WakeUpElsewhereChangesNothing ==
    [][(~IdleFlags /\ Handled("WAKE_UP")) =>
          (conversation_history' = conversation_history /\ tasks' = tasks)]_vars

\* slot t takes a daily summary in this step, its signal met is_listening
SummaryStarts(t) ==
    /\ tasks[t].kind = "none"
    /\ tasks'[t].kind = "summary"
    /\ tasks'[t].was_listening

\* the daily summary of slot t ends successfully in this step
SummarySucceeds(t) ==
    /\ tasks[t].kind = "summary"
    /\ tasks'[t].kind = "none"
    /\ last_event'.result = "ok"

(* C8: the step that handles a SLEEP_TRIGGER met while listening sets
   is_listening false and is_processing true at once; the step that ends its
   daily summary successfully leaves the history empty, is_listening false,
   is_processing false and the injected context None; and every such summary
   does end, successfully or not: a task leaves its summary only by ending,
   and it is again and again not in a summary. *)
C8_SleepReachesIdle ==
    /\ [][\A t \in TaskIds :
             /\ SummaryStarts(t) => (~is_listening' /\ is_processing')
             /\ SummarySucceeds(t) => AllReset']_vars
    /\ [][\A t \in TaskIds :
             (tasks[t].kind = "summary" /\ tasks'[t].kind /= "summary")
                 => tasks'[t].kind = "none"]_vars
    /\ \A t \in TaskIds : []<>(tasks[t].kind /= "summary")

\* a daily summary whose SLEEP_TRIGGER met is_listening has just succeeded
C8_Witness ==
    /\ last_event.op = "ended"
    /\ last_event.what = "summary"
    /\ last_event.result = "ok"
    /\ last_event.listening
    /\ AllReset
    /\ last_memory.stored
    /\ last_memory.raw_conversation /= << >>

(* C9: the raw_conversation of the record a daily summary stores equals the
   conversation history as it was when its SLEEP_TRIGGER was handled. *)
C9_RecordIsHistoryAtSignal ==
    [][\A t \in TaskIds :
          (tasks[t].kind = "summary" /\ tasks[t].pc = "short"
               /\ tasks'[t].pc = "print") =>
              last_memory'.raw_conversation = tasks[t].at_signal]_vars

(* C10: the truncation of the forget workflow, for a threshold of T words on
   a history of W words, removes at least min(T, W) words and leaves a prefix
   of the history it started from. *)
C10_ForgetRemovesEnough ==
    [][\A t \in TaskIds :
          (tasks[t].kind = "forget" /\ tasks[t].pc = "truncate"
               /\ tasks'[t].pc = "confirm") =>
              /\ IsPrefix(conversation_history', conversation_history)
              /\ WordCount(conversation_history)
                     - WordCount(conversation_history')
                 >= Min(tasks[t].words, WordCount(conversation_history))]_vars

\* a forget has removed more words than its threshold, emptying a history
\* built from every recorded chunk
C10_Witness ==
    \E t \in TaskIds :
        /\ tasks[t].kind = "forget"
        /\ tasks[t].pc = "confirm"
        /\ tasks[t].removed > tasks[t].words
        /\ conversation_history = << >>
        /\ recorded = MaxChunks

\* slot t runs the truncation of its forget workflow in this step
Truncates(t) ==
    /\ tasks[t].kind = "forget" /\ tasks[t].pc = "truncate"
    /\ tasks'[t].pc = "confirm"

\* the words the step takes out of the conversation history
WordsRemoved == WordCount(conversation_history) - WordCount(conversation_history')

(* C11: the truncation of the forget workflow removes whole utterances from
   the back only: what stays is a prefix of the history, unaltered; the
   removed tail holds at least the threshold's words or is the whole
   history; and it is the shortest such tail, without its oldest utterance
   it would hold fewer words than the threshold. *)
C11_ForgetRemovesShortestTail ==
    [][\A t \in TaskIds :
          Truncates(t) =>
              /\ IsPrefix(conversation_history', conversation_history)
              /\ \/ WordsRemoved >= tasks[t].words
                 \/ conversation_history' = << >>
              /\ Len(conversation_history') < Len(conversation_history) =>
                     WordsRemoved
                       - conversation_history[Len(conversation_history') + 1].words
                     < tasks[t].words]_vars

\* a forget has reached its threshold by removing the utterance of the
\* second chunk and has left the utterance of the first chunk in place
C11_Witness ==
    /\ \E t \in TaskIds :
           /\ tasks[t].kind = "forget"
           /\ tasks[t].pc = "confirm"
           /\ tasks[t].removed >= tasks[t].words
    /\ Len(conversation_history) = 1
    /\ conversation_history[1].chunk = 1
    /\ recorded = MaxChunks
    /\ audio_queue = << >>
    /\ live_pc = "idle"

\* the forget workflow of slot t ends successfully in this step
ForgetSucceeds(t) ==
    /\ tasks[t].kind = "forget"
    /\ tasks'[t].kind = "none"
    /\ last_event'.result = "ok"

(* C12: a forget workflow whose truncation ran out of history before it
   reached its threshold ends, when it ends successfully, with an empty
   conversation history and with is_processing false. *)
C12_ExhaustedForgetEndsEmpty ==
    [][\A t \in TaskIds :
          (ForgetSucceeds(t) /\ tasks[t].removed < tasks[t].words) =>
              (conversation_history' = << >> /\ ~is_processing')]_vars

(* C13: in the step that follows the handling of a FORGET_8S or FORGET_30S
   received in LISTENING (listening, nothing else running), if the forget is
   still running then is_processing and is_listening are both still true. *)
C13_ForgetKeepsListening ==
    [][\A t \in TaskIds :
          ( /\ last_event.op = "signal"
            /\ last_event.what \in ForgetSignals
            /\ last_event.listening
            /\ tasks[t].kind = "forget" /\ tasks[t].pc = "truncate"
            /\ \A u \in TaskIds \ {t} : ~Running(u)
            /\ tasks'[t].kind = "forget" ) =>
              (is_processing' /\ is_listening')]_vars

(* C14: the utterances of the conversation history stand in the order in
   which their chunks were captured, and every append of the analysis loop
   lengthens the history by exactly one utterance, that of the chunk in
   flight, placed last. *)
C14_HistoryInCaptureOrder ==
    /\ [](\A i, j \in 1 .. Len(conversation_history) :
              i < j => conversation_history[i].chunk
                         < conversation_history[j].chunk)
    /\ [][LiveAppended =>
              /\ Len(conversation_history') = Len(conversation_history) + 1
              /\ IsPrefix(conversation_history, conversation_history')
              /\ conversation_history'[Len(conversation_history')].chunk
                     = live_chunk]_vars

\* every recorded chunk has been transcribed and appended, chunks having
\* waited in the queue together
C14_Witness ==
    /\ Len(conversation_history) = MaxChunks
    /\ recorded = MaxChunks
    /\ \A t \in TaskIds : ~Running(t)

(* C15: a chunk leaves the queue only when the analysis loop is idle, one
   chunk at a time, the oldest, and becomes the one chunk in flight; a chunk
   is in flight exactly while the loop is transcribing. *)
C15_OneTranscriptionInFlight ==
    /\ []((live_pc = "transcribing") <=> (live_chunk /= 0))
    /\ [][audio_queue' /= audio_queue /\ Len(audio_queue') <= Len(audio_queue) =>
              /\ live_pc = "idle" /\ live_pc' = "transcribing"
              /\ audio_queue' = Tail(audio_queue)
              /\ live_chunk' = Head(audio_queue)]_vars
    /\ [][live_pc = "transcribing" /\ live_pc' = "transcribing" =>
              live_chunk' = live_chunk]_vars

\* a transcription is in flight while another chunk waits in the queue
C15_Witness ==
    /\ live_pc = "transcribing"
    /\ audio_queue /= << >>
    /\ is_listening

\* the analysis loop gives up the chunk in flight in this step, for the
\* reason why, without an utterance
Skips(why) == last_event'.op = "live" /\ last_event'.what = why

(* C16: when the transcription of a chunk returns the empty string, the
   conversation history stays as it was, no emotion is classified or sent
   for the chunk, and the loop is idle again; no utterance of the history
   is ever empty. *)
C16_EmptyTextDiscarded ==
    /\ [](\A i \in 1 .. Len(conversation_history) :
              conversation_history[i].words > 0)
    /\ [][Skips("empty") =>
              /\ conversation_history' = conversation_history
              /\ live_pc = "transcribing" /\ live_pc' = "idle"]_vars

\* the second chunk was silence: the utterance of the first is still the
\* whole history
C16_Witness ==
    /\ last_event = Skipped("empty")
    /\ Len(conversation_history) = 1
    /\ conversation_history[1].chunk = 1
    /\ recorded = MaxChunks
    /\ audio_queue = << >>

(* C17: when the transcription of a chunk fails, the conversation history,
   is_listening and is_processing stay as they were and the loop is idle
   again; and whenever the session is listening, a chunk waits in the queue
   and no transcription is in flight, the loop can take the chunk. *)
C17_TranscriptionFailureAbsorbed ==
    /\ [][Skips("failed") =>
              /\ UNCHANGED << conversation_history, is_listening,
                              is_processing >>
              /\ live_pc' = "idle"]_vars
    /\ []((is_listening /\ audio_queue /= << >> /\ live_chunk = 0) =>
              ENABLED LiveTake)

\* the transcription of a chunk has just failed while the session listens
\* and the next chunk waits in the queue
C17_Witness ==
    /\ last_event = Skipped("failed")
    /\ is_listening
    /\ audio_queue /= << >>
    /\ live_pc = "idle"

(* C18: every SET_EMOTION message carries one of the ten emotion types; it
   carries neutral when the answer of the chain is none of them; and the
   loop is idle again after sending it. *)
C18_EmotionLabelsInSet ==
    /\ [](last_event.op = "emotion" =>
              /\ last_event.what \in EmotionLabels
              /\ last_event.result \notin EmotionLabels =>
                     last_event.what = "neutral")
    /\ [][last_event'.op = "emotion" => live_pc' = "idle"]_vars

\* neutral was sent for an answer that could not be parsed
C18_Witness ==
    /\ last_event.op = "emotion"
    /\ last_event.result = "unparseable"
    /\ last_event.what = "neutral"
    /\ conversation_history /= << >>

\* the daily summary of slot t ends with a failure in this step
SummaryFails(t) ==
    /\ tasks[t].kind = "summary"
    /\ tasks'[t].kind = "none"
    /\ last_event'.result = "failed"

(* C19: the step in which a daily summary fails, at whichever of its steps,
   reports the failure, frees its slot so that none of its later steps runs,
   sets is_processing false, and leaves the stored diary, the conversation
   history, is_listening and the injected context as they were: nothing is
   written, reset or rolled back. *)
C19_SummaryFailureAborts ==
    [][\A t \in TaskIds :
          SummaryFails(t) =>
              /\ last_event'.op = "ended" /\ last_event'.what = "summary"
              /\ tasks'[t] = NoTask
              /\ ~is_processing'
              /\ UNCHANGED << last_memory, conversation_history,
                              is_listening, injected_context >>]_vars

\* a daily summary has failed after its record was stored: the record is
\* still there, the history is not reset, is_processing is false
C19_Witness ==
    /\ last_event.op = "ended"
    /\ last_event.what = "summary"
    /\ last_event.result = "failed"
    /\ last_memory.stored
    /\ last_memory.raw_conversation = conversation_history
    /\ conversation_history /= << >>
    /\ ~is_processing
    /\ \A t \in TaskIds : ~Running(t)

(* C20: an inject-context request can be handled in every state, is
   answered 200, leaves injected_context equal to the context it carries
   whatever was injected before, and leaves is_listening, is_processing, the
   conversation history, the running workflows and the stored diary as they
   were. *)
C20_InjectContextOverwrites ==
    /\ [](\A context \in Contexts : ENABLED InjectContext(context))
    /\ [][\A context \in Contexts :
              (last_event'.op = "inject" /\ last_event'.what = context) =>
                  /\ last_event'.result = OkStatus
                  /\ injected_context' = context
                  /\ UNCHANGED << is_listening, is_processing,
                                  conversation_history, tasks,
                                  last_memory >>]_vars

\* a context was just injected while the session was listening and
\* processing, with a history in place
C20_Witness ==
    /\ last_event.op = "inject"
    /\ injected_context = last_event.what
    /\ is_listening /\ is_processing
    /\ conversation_history /= << >>

(* C21: injected_context changes only in the handling of an inject-context
   request and in the step that ends a daily summary successfully, and only
   the latter sets it back to None: appends of the analysis loop, forget
   workflows, failed summaries and signals, accepted or rejected, leave it
   as it is. *)
C21_ContextKeptUntilReset ==
    [][injected_context' /= injected_context =>
          \/ last_event'.op = "inject" /\ injected_context' /= NoContext
          \/ /\ \E t \in TaskIds : SummarySucceeds(t)
             /\ injected_context' = NoContext]_vars

\* a context is still injected at the end of a forget workflow, after a
\* WAKE_UP and an append of the analysis loop
C21_Witness ==
    /\ injected_context /= NoContext
    /\ last_event.op = "ended"
    /\ last_event.what = "forget"
    /\ conversation_history /= << >>
    /\ is_listening

\* chunks stand in capture order
Ascending(queue) ==
    \A i, j \in 1 .. Len(queue) : i < j => queue[i] < queue[j]

(* C22: the audio queue never holds more than MaxQueue chunks; recording is
   possible whenever the session listens, also on a full queue; a chunk
   recorded on a full queue takes the place of the oldest one; and the
   chunks of the queue follow the chunk in flight and the chunks of the
   history in capture order. *)
C22_QueueBoundedDropOldest ==
    /\ [](Len(audio_queue) <= MaxQueue)
    /\ []((is_listening /\ recorded < MaxFrames) => ENABLED Record(MaxFrames))
    /\ [](/\ Ascending(audio_queue)
          /\ \A i \in 1 .. Len(audio_queue) :
                 /\ live_chunk < audio_queue[i]
                 /\ \A j \in 1 .. Len(conversation_history) :
                        conversation_history[j].chunk < audio_queue[i])
    /\ [][recorded' = recorded + 1 =>
              audio_queue' =
                  IF Len(audio_queue) = MaxQueue
                  THEN Append(Tail(audio_queue), recorded + 1)
                  ELSE Append(audio_queue, recorded + 1)]_vars

\* the first chunk is still being transcribed, the second was dropped from
\* the full queue, the third and the fourth wait
C22_Witness ==
    /\ live_chunk = 1
    /\ Len(audio_queue) = MaxQueue
    /\ audio_queue[1] > 2
    /\ recorded = MaxFrames

\* the step is one loop() of the lamp
Looped == clock' /= clock

Printed(line) == Count(serial_out, line) > 0

\* the debounced touch input has just gone from LOW to HIGH
Touched == Looped /\ touch'.changed /\ touch'.stableState

(* C24: a debounced touch while the lamp is awake prints SLEEP_SIGNAL, and
   one while it is asleep prints WAKEUP_SIGNAL. *)
C24_TouchAlternatesSleepAndWake ==
    [][Touched =>
           IF isAwake
           THEN Printed("SLEEP_SIGNAL")' /\ ~Printed("WAKEUP_SIGNAL")'
           ELSE Printed("WAKEUP_SIGNAL")' /\ ~Printed("SLEEP_SIGNAL")']_vars

(* C25: every signal the gateway forwards to /api/device/signal is accepted:
   no forwarded gesture is answered with Invalid signal type. *)
C25_ForwardedSignalsAccepted ==
    [][\A keyword \in Keywords :
           Handled(Translate(keyword)) =>
               /\ Translate(keyword) \in ValidSignals
               /\ last_event'.result = OkStatus]_vars

(* C26: FORGET_SIGNAL is printed only on a far sample that follows, by at
   most MAX_INTERVAL, a near sample that itself followed a far sample by at
   most MAX_INTERVAL; a sample taken more than MAX_INTERVAL after the leg
   began returns the detector to state 0 and prints nothing. *)
C26_ForgetOnlyAfterCompleteWave ==
    /\ [][Looped /\ Printed("FORGET_SIGNAL")' =>
              /\ reading'.sampled
              /\ reading'.d > DISTANCE_THRESHOLD
              /\ seen.near_at /= Never
              /\ clock - seen.near_at <= MAX_INTERVAL]_vars
    /\ [][/\ Looped
          /\ reading'.sampled
          /\ wave.waveState \in {1, 2}
          /\ clock - wave.stateTime > MAX_INTERVAL
          => wave'.waveState = 0 /\ ~Printed("FORGET_SIGNAL")']_vars

\* a wave has just been printed, its near sample and the far sample before
\* it on record
C26_Witness ==
    /\ Printed("FORGET_SIGNAL")
    /\ seen.forget_at - seen.near_at <= MAX_INTERVAL
    /\ seen.near_at /= Never
    /\ wave.waveState = 0

\* the detector has followed a wave to its last sample, in time
WaveCompleted ==
    /\ Looped
    /\ reading'.sampled
    /\ wave.waveState = 2
    /\ clock - wave.stateTime <= MAX_INTERVAL
    /\ reading'.d > DISTANCE_THRESHOLD

(* C27: two FORGET_SIGNAL lines are at least WAVE_COOLDOWN apart, and a wave
   completed when no FORGET_SIGNAL was printed in the last WAVE_COOLDOWN
   milliseconds, the first wave after power-up included, is printed. *)
C27_CooldownBetweenForgets ==
    /\ [][Looped /\ Printed("FORGET_SIGNAL")' /\ seen.forget_at /= Never =>
              clock - seen.forget_at >= WAVE_COOLDOWN]_vars
    /\ [][/\ WaveCompleted
          /\ seen.forget_at = Never \/ clock - seen.forget_at >= WAVE_COOLDOWN
          => Printed("FORGET_SIGNAL")']_vars

\* the touch pin has read the same for longer than the debounce interval,
\* and not what the stable state says
HeldLongEnough ==
    /\ reading'.touchRaw = reading.touchRaw
    /\ clock - seen.touch_since > TOUCH_DEBOUNCE
    /\ reading'.touchRaw /= touch.stableState

(* C28: debounceDigital reports a change, and takes the reading as the stable
   state, exactly when the reading has been the same for longer than the
   interval and differs from the stable state; one touch prints WAKEUP_SIGNAL
   once, and a bounce or the release prints nothing. *)
C28_DebouncedTouchPrintsOnce ==
    /\ [][Looped => (touch'.changed <=> HeldLongEnough)]_vars
    /\ [][Looped =>
              touch'.stableState =
                  IF HeldLongEnough THEN reading'.touchRaw
                  ELSE touch.stableState]_vars
    /\ [][Looped =>
              Count(serial_out', "WAKEUP_SIGNAL") =
                  IF HeldLongEnough /\ reading'.touchRaw THEN 1 ELSE 0]_vars

\* a touch has just been debounced after an earlier one was released
C28_Witness ==
    /\ Printed("WAKEUP_SIGNAL")
    /\ touch.changed /\ touch.stableState
    /\ ~isAwake

(* C29: REWIND_SIGNAL is printed only in a loop() that began after
   QR_STARTUP_BLOCK, only in the step in which the debounced light state goes
   from dark to bright, and once in that step. *)
C29_RewindOncePerUncover ==
    [][Looped /\ Printed("REWIND_SIGNAL")' =>
           /\ clock > QR_STARTUP_BLOCK
           /\ ~qr.stableState
           /\ qr'.stableState
           /\ Count(serial_out', "REWIND_SIGNAL") = 1]_vars

\* a second REWIND_SIGNAL has just been printed
C29_Witness ==
    /\ Printed("REWIND_SIGNAL")
    /\ seen.rewinds = 2

Reads(id) == store_reply'.op = "read" /\ store_reply'.uuid = id

(* C23: a read returns the record stored under the uuid, or 404 when none
   was ever created; a read changes nothing in the store, a stored record
   changes only by an update of its uuid, and a read that follows a read of
   the same uuid returns the same. *)
C23_ReadIsRepeatable ==
    /\ [][\A id \in MemoryIds :
              Reads(id) /\ store_reply' /= store_reply =>
                  /\ datastore' = datastore
                  /\ Stored(id) =>
                         /\ store_reply'.status = OkStatus
                         /\ store_reply'.body = datastore[id]
                  /\ ~Stored(id) => store_reply'.status = NotFoundStatus]_vars
    /\ [][\A id \in MemoryIds :
              Stored(id) /\ datastore'[id] /= datastore[id] =>
                  store_reply'.op = "update" /\ store_reply'.uuid = id]_vars
    /\ [][\A id \in MemoryIds :
              /\ Reads(id)
              /\ store_reply.op = "read"
              /\ store_reply.uuid = id
              => store_reply' = store_reply]_vars

\* a record has been created and read, while another uuid was never created
C23_Witness ==
    /\ store_reply.op = "read"
    /\ store_reply.status = OkStatus
    /\ store_reply.body = datastore[store_reply.uuid]
    /\ \E id \in MemoryIds : ~Stored(id)

\* a WebSocket has just been created
Created == Len(sockets') > Len(sockets)

(* C30: every WebSocket the hook creates is created for the effect of the
   latest render of a mounted component: none is created after the cleanup
   of the effect whose connect creates it. *)
C30_NoSocketAfterCleanup ==
    [][Created =>
           /\ mounted'
           /\ sockets'[Len(sockets')].url = wsUrl']_vars

\* onclose has just run for a socket
OnClose(i) ==
    /\ sockets[i].readyState /= "CLOSED"
    /\ sockets'[i].readyState = "CLOSED"
    /\ sockets'[i].onclose

Alive == {i \in DOMAIN sockets : sockets[i].readyState /= "CLOSED"}

(* C31: every close that runs onclose sets isConnected to false and leaves a
   timer; isConnected becomes true only by an onopen; a pending timer leads
   to a socket that is connecting or open; and a mounted hook that is not
   connected is connected again later. *)
C31_ReconnectsWhileMounted ==
    /\ [][\A i \in DOMAIN sockets :
              OnClose(i) =>
                  /\ ~isConnected'
                  /\ timers'[sockets[i].url] = timers[sockets[i].url] + 1]_vars
    /\ [][~isConnected /\ isConnected' =>
              \E i \in DOMAIN sockets :
                  /\ sockets[i].readyState = "CONNECTING"
                  /\ sockets'[i].readyState = "OPEN"]_vars
    /\ \A url \in Urls : (timers[url] > 0) ~> (Alive /= {})
    /\ (mounted /\ ~isConnected) ~> (isConnected \/ ~mounted)

\* a second socket has been opened after the first was lost
C31_Witness ==
    /\ mounted
    /\ isConnected
    /\ Len(sockets) > 1
    /\ sockets[1].readyState = "CLOSED"
    /\ sockets[1].onclose

(* C32: at most one WebSocket of the hook is connecting or open. *)
C32_OneSocketAlive == Cardinality(Alive) <= 1

Known(label) == EmotionMap(ToLowerCase(label)) /= Null

(* C33: emotionIndex changes only at a tick; at a tick it becomes the index
   of the latest SET_EMOTION with a known label that arrived since the tick
   before, and the pending value is cleared, or it stays as it is when none
   arrived; a SET_EMOTION with an unknown label changes neither the pending
   value nor emotionIndex; a SET_MODE sets mode at once. *)
C33_EmotionOncePerTick ==
    /\ [][emotionIndex' /= emotionIndex =>
              heard'.op = "tick" /\ heard.latest /= Null]_vars
    /\ [][heard'.op = "tick" /\ heard' /= heard =>
              /\ latestEmotionRef' = Null
              /\ emotionIndex' =
                     IF heard.latest /= Null THEN heard.latest
                     ELSE emotionIndex]_vars
    /\ [][heard'.op = "emotion" /\ ~Known(heard'.arg) =>
              UNCHANGED << latestEmotionRef, emotionIndex >>]_vars
    /\ [][heard'.op = "emotion" /\ Known(heard'.arg) =>
              /\ latestEmotionRef' = EmotionMap(ToLowerCase(heard'.arg))
              /\ UNCHANGED emotionIndex]_vars
    /\ [][heard'.op = "mode" => mode' = heard'.arg]_vars

\* a tick has just taken the index of a label sent in capitals, NEUTRAL, and
\* a SET_MODE has set FORGET before it
C33_Witness ==
    /\ heard.op = "tick"
    /\ emotionIndex = 0
    /\ mode = "FORGET"

(* C35: while mode is FORGET a timer of 5000 ms is pending and while it is
   REWIND one of 10000 ms, and no timer otherwise; the timer sets IDLE, so
   FORGET and REWIND are left again; a timer never fires in SLEEP or IDLE,
   whose mode changes only by a command. *)
C35_TemporaryModesReset ==
    /\ [](/\ state_mode = "FORGET" => reset_timer = ForgetReset
          /\ state_mode = "REWIND" => reset_timer = RewindReset
          /\ state_mode \in {"IDLE", "SLEEP"} => reset_timer = 0)
    /\ [][commanded'.op = "timer" /\ commanded' /= commanded =>
              /\ state_mode \in {"FORGET", "REWIND"}
              /\ state_mode' = "IDLE"]_vars
    /\ [][state_mode' /= state_mode /\ state_mode \in {"IDLE", "SLEEP"} =>
              /\ commanded'.op = "SET_MODE"
              /\ commanded'.arg = state_mode']_vars
    /\ (state_mode = "FORGET") ~> (state_mode /= "FORGET")
    /\ (state_mode = "REWIND") ~> (state_mode /= "REWIND")

\* an auto-reset timer has just set IDLE
C35_Witness ==
    /\ commanded.op = "timer"
    /\ state_mode = "IDLE"
    /\ reset_timer = 0

ActiveEmotion == slot[activeSlot].emotion

(* C36: when the emotion prop stays at an emotion that is not the one of the
   active slot and no cooldown is on, the active slot comes to show that
   emotion; and after a video other than the neutral one has ended, the
   active slot comes to show the neutral video. *)
C36_PlayerFollowsTarget ==
    /\ \A e \in TargetEmotions :
           (targetEmotion = e /\ ActiveEmotion /= e /\ ~isOnCooldown)
               ~> (ActiveEmotion = e \/ targetEmotion /= e)
    /\ (slot[activeSlot].ended /\ ActiveEmotion /= "neutral")
           ~> (ActiveEmotion = "neutral")

(* C37: no slot gets another source while a cooldown timer is pending, that
   is within COOLDOWN_MS of a switch; the active slot
   changes only to a slot that was loading and has reported canplaythrough;
   the emotion noted for a slot is the emotion of the source loaded in it. *)
C37_CooldownAndSlotsConsistent ==
    /\ [](\A x \in {"A", "B"} :
              slot[x].src /= "" => slot[x].src = EmotionVideos(slot[x].emotion))
    /\ [][cooldown_timers' > 0 => \A x \in {"A", "B"} : slot'[x].src = slot[x].src]_vars
    /\ [][activeSlot' /= activeSlot =>
              /\ slot[activeSlot'].loading
              /\ ~slot'[activeSlot'].loading
              /\ isOnCooldown']_vars

(* C38: an overlay that is shown is hidden again, the step that hides it
   calls onHandWavingChange(false), and this whatever the parent does with
   isHandWaving. *)
C38_OverlayIsHidden ==
    /\ showHandWavingOverlay ~> ~showHandWavingOverlay
    /\ [][showHandWavingOverlay /\ ~showHandWavingOverlay' => told']_vars

(* C39: a transition starts only while the overlay is hidden; at most one
   transition is in progress; every end of a transition flips isSecondActive
   and changes currentIndex, and nothing else changes them; currentIndex is
   an index of videos. *)
C39_OneTransitionAtATime ==
    /\ [](Len(transition_timers) <= 1)
    /\ [](currentIndex \in 0 .. NumVideos - 1)
    /\ [][Len(transition_timers') > Len(transition_timers)
              => ~showHandWavingOverlay]_vars
    /\ [][Len(transition_timers') < Len(transition_timers)
              => isSecondActive' /= isSecondActive /\ currentIndex' /= currentIndex]_vars
    /\ [][isSecondActive' /= isSecondActive \/ currentIndex' /= currentIndex
              => Len(transition_timers') < Len(transition_timers)]_vars

(* C40: a transition to an index other than 0 starts only for an index prop
   that has arrived and has not been current since, and a player on another
   index with no such prop comes back to index 0. *)
C40_BackToNeutralAndStays ==
    /\ [][Len(transition_timers') > Len(transition_timers)
              => LET target == transition_timers'[Len(transition_timers')].target
                 IN  target /= 0 => pending_prop = target]_vars
    /\ (currentIndex /= 0 /\ pending_prop = Null /\ ~isHandWaving
            /\ ~showHandWavingOverlay)
           ~> (currentIndex = 0 \/ pending_prop /= Null \/ isHandWaving)

\* the source of the video in front
currentVideoSrc == IF isSecondActive THEN videoB ELSE videoA

(* C34: when a tick has made a label other than neutral the emotionIndex and
   the player has not been rendered with it yet, the player comes to show
   the video of that index. *)
C34_LatestEmotionIsShown ==
    \A k \in 1 .. NumVideos - 1 :
        (emotionIndex = k /\ index /= k) ~> (currentVideoSrc = k)

====
